---- MODULE Spec2Model ----
(***************************************************************************)
(* Whole-program call-graph construction (CallGraph.cc, KAMain.cc) and the *)
(* backward/forward slicer with its output emitter (Slicing.cc), modelled  *)
(* over a small two-module IR program.  LLVM objects (types, functions,    *)
(* basic blocks, instructions) are table rows named by strings; the maps   *)
(* of GlobalContext and the sets of Slicing are the variables.             *)
(***************************************************************************)
EXTENDS Integers, Sequences, FiniteSets, TLC

\* ------------------------------------------------------------------------
\* State
\* ------------------------------------------------------------------------

VARIABLES
  FuncTable,          \* the Functions of the parsed bitcode, by id
  BlockTable,         \* their BasicBlocks, by id
  SiteTable,          \* their CallBase instructions, by id
  InputFilenames,     \* cl::list InputFilenames: the bitcode files, in order
  addrOrder,          \* "asc" / "desc": iteration order of pointer-keyed sets
  args,               \* which of --file, --multi, --line, --func, --srcroot are given
  pc,                 \* position of main()
  idx,                \* module index of the running loop over Modules
  fidx,               \* function index of doModulePass's sweep
  Changed,            \* doModulePass: Changed of the running sweep
  ret,                \* doModulePass: ret
  changed,            \* IterativeModulePass::run: changed of the running iteration
  Modules,            \* GlobalCtx.Modules
  Funcs,              \* GlobalCtx.Funcs: scope-name -> Function
  AddressTakenFuncs,  \* GlobalCtx.AddressTakenFuncs
  FuncPtrs,           \* GlobalCtx.FuncPtrs: id -> FuncSet
  Callees,            \* GlobalCtx.Callees: CallBase -> FuncSet
  Callers,            \* GlobalCtx.Callers: Function -> CallBaseSet
  IndirectCallInsts,  \* GlobalCtx.IndirectCallInsts
  Sl,                 \* the Slicing object's sets and counter
  fullFunc,           \* Slicing::fullFunc_
  lines,              \* the target names read so far (--multi lines, or --func)
  cur,                \* targetFunc of the running query
  files,              \* the output directory: file name -> set of lines
  callgraph_result,   \* the lines of callgraph_result, none before it is written
  exit,               \* main's return value ("0", "-1"), None while running
  reruns,             \* calls of CGPass.run made after the first one
  inputPath,          \* normalizePath's argument pathStr
  normalized,         \* normalizePath's return value
  FormalTy,           \* isCompatibleType's argument T1
  ActualTy,           \* isCompatibleType's argument T2
  compatible,         \* isCompatibleType's return value
  callStack,          \* the slicer's calls in progress, innermost last, with their locals
  wpc,                \* position of each compiler process in writeModuleBitcodeToFile
  outBuf,             \* per process: chunks its raw_fd_ostream out still buffers
  bcFile              \* the file at path: existence, bytes, fcntl lock, who completed it

\* The parsed IR and the command line: never modified once main runs.
inputs == <<FuncTable, BlockTable, SiteTable, InputFilenames, addrOrder, args>>

\* The state of the path normalizer taken alone.
paths == <<inputPath, normalized>>

\* The state of the bitcode writer processes and their file, taken alone.
bitcode == <<wpc, outBuf, bcFile>>

\* No file at path, no lock on it (lock is the holding process, 0 for none).
NoFile == [exists |-> FALSE, bytes |-> <<>>, lock |-> 0, completed |-> {}]

\* The calls of the slicer in progress, taken alone.
frames == <<callStack>>

\* The state of the type comparison taken alone.
types == <<FormalTy, ActualTy, compatible>>

vars ==
  <<FuncTable, BlockTable, SiteTable, InputFilenames, addrOrder, args, pc, idx, fidx, Changed, ret, changed, Modules, Funcs,
    AddressTakenFuncs, FuncPtrs, Callees, Callers, IndirectCallInsts, Sl, fullFunc,
    lines, cur, files, callgraph_result, exit, reruns, inputPath, normalized,
    FormalTy, ActualTy, compatible, callStack, wpc, outBuf, bcFile>>

\* main, lines 296, 345 and 355: the branch the slicing part takes.
\* "multi" when --multi is given, else "line" when --line is non-zero,
\* else "func".
mode == IF args.multi THEN "multi" ELSE IF args.line THEN "line" ELSE "func"

\* ------------------------------------------------------------------------
\* Strings (std::string): TLC strings with Len, \o and SubSeq.
\* ------------------------------------------------------------------------

None == "none"

\* s.substr(i) / s.substr(i, n) with 0-based i, as std::string::substr.
Substr(s, i, n) == SubSeq(s, i + 1, IF i + n > Len(s) THEN Len(s) ELSE i + n)

\* str.startswith(p)
StartsWith(s, p) == Len(p) <= Len(s) /\ SubSeq(s, 1, Len(p)) = p

\* s.find(p) != std::string::npos
Contains(s, p) == \E i \in 1..(Len(s) - Len(p) + 1) : SubSeq(s, i, i + Len(p) - 1) = p

\* ------------------------------------------------------------------------
\* LLVM types (typed pointers).  A type is a row of TypeTable.
\* ------------------------------------------------------------------------

T0 ==
  [kind |-> "void", elem |-> None, width |-> 0, aspace |-> 0, literal |-> FALSE,
   sname |-> "", elems |-> <<>>, ret |-> None, params |-> <<>>, vararg |-> FALSE]

IntTy(w) == [T0 EXCEPT !.kind = "int", !.width = w]
PtrTy(e, as) == [T0 EXCEPT !.kind = "ptr", !.elem = e, !.aspace = as]
ArrTy(e) == [T0 EXCEPT !.kind = "arr", !.elem = e]
NamedStructTy(n) == [T0 EXCEPT !.kind = "struct", !.sname = n]
LitStructTy(es) == [T0 EXCEPT !.kind = "struct", !.literal = TRUE, !.elems = es]
FnTy(r, ps, va) == [T0 EXCEPT !.kind = "fn", !.ret = r, !.params = ps, !.vararg = va]

TypeTable ==
  [void    |-> T0,
   double  |-> [T0 EXCEPT !.kind = "double"],
   i8      |-> IntTy(8),
   i32     |-> IntTy(32),
   i64     |-> IntTy(64),
   i8p     |-> PtrTy("i8", 0),
   i32p    |-> PtrTy("i32", 0),
   A       |-> NamedStructTy("struct.A"),
   B       |-> NamedStructTy("struct.B"),
   Ap      |-> PtrTy("A", 0),
   Bp      |-> PtrTy("B", 0),
   Ap32    |-> PtrTy("A", 32),
   arrA    |-> ArrTy("A"),
   arrB    |-> ArrTy("B"),
   litII   |-> LitStructTy(<<"i32", "i64">>),
   litIP   |-> LitStructTy(<<"i32", "i8p">>),
   litI    |-> LitStructTy(<<"i32">>),
   fnII    |-> FnTy("i32", <<"i32", "i32">>, FALSE),
   fnLL    |-> FnTy("i32", <<"i64", "i64">>, FALSE),
   fnV     |-> FnTy("void", <<"i32">>, TRUE),
   fnVi    |-> FnTy("i32", <<"i32">>, TRUE),
   fnIIp   |-> PtrTy("fnII", 0),
   fnVp    |-> PtrTy("fnV", 0)]

Types == DOMAIN TypeTable

RECURSIVE isCompatibleType(_, _)
isCompatibleType(T1, T2) ==
  LET t1 == TypeTable[T1]
      t2 == TypeTable[T2]
  IN
  IF t1.kind = "ptr" THEN
       IF t2.kind # "ptr" THEN FALSE
       ELSE IF TypeTable[t1.elem].kind = "int" /\ TypeTable[t1.elem].width = 8 THEN TRUE
       ELSE isCompatibleType(t1.elem, t2.elem)
  ELSE IF t1.kind = "arr" THEN
       IF t2.kind # "arr" THEN FALSE
       ELSE isCompatibleType(t1.elem, t1.elem)
  ELSE IF t1.kind = "int" THEN
       IF t2.kind = "ptr" /\ t1.width = t2.aspace THEN TRUE
       ELSE t2.kind = "int"
  ELSE IF t1.kind = "struct" THEN
       IF t2.kind # "struct" THEN FALSE
       ELSE IF t1.literal # t2.literal THEN FALSE
       ELSE IF t1.literal THEN
            IF Len(t1.elems) # Len(t2.elems) THEN FALSE
            ELSE \A i \in 1..Len(t1.elems) : isCompatibleType(t1.elems[i], t2.elems[i])
       ELSE t1.sname = t2.sname
  ELSE IF t1.kind = "fn" THEN
       IF t2.kind # "fn" THEN FALSE
       ELSE IF ~isCompatibleType(t1.ret, t2.ret) THEN FALSE
       ELSE IF t1.vararg THEN t2.vararg
       ELSE IF Len(t1.params) # Len(t2.params) THEN FALSE
       ELSE \A i \in 1..Len(t1.params) : isCompatibleType(t1.params[i], t2.params[i])
  ELSE t1.kind = t2.kind

\* ------------------------------------------------------------------------
\* The IR program: two bitcode files, a.bc and b.bc.
\* ------------------------------------------------------------------------

\* Module rows: the module identifier (the input path) and the debug
\* directory / filename its compile unit carries.
ModuleTable ==
  [a |-> [ident |-> "a.bc", stem |-> "a", dir |-> "/src", file |-> "a.c"],
   b |-> [ident |-> "b.bc", stem |-> "b", dir |-> "/src/./x/..", file |-> "y/../b.c"]]

ModuleIds == DOMAIN ModuleTable

Fn0 ==
  [name |-> "", mod |-> "a", linkage |-> "external", section |-> "",
   intrinsic |-> FALSE, dbg |-> FALSE, vararg |-> FALSE, ret |-> "void",
   params |-> <<>>, addrTaken |-> FALSE, sp |-> TRUE, spLine |-> 0, blocks |-> <<>>]

\* A definition (with body), a declaration (no blocks), an address-taken one.
Def(n, m, r, ps, ln, bs) ==
  [Fn0 EXCEPT !.name = n, !.mod = m, !.ret = r, !.params = ps, !.spLine = ln, !.blocks = bs]
Decl(n, m, r, ps) ==
  [Fn0 EXCEPT !.name = n, !.mod = m, !.ret = r, !.params = ps, !.sp = FALSE]
Taken(f) == [f EXCEPT !.addrTaken = TRUE]
InSection(f, s) == [f EXCEPT !.section = s]
NoSP(f) == [f EXCEPT !.sp = FALSE]

FuncRows ==
     "a:main"    :> Def("main", "a", "i32", <<>>, 10, <<"am0", "am1">>)
  @@ "a:setup"   :> Def("setup", "a", "void", <<>>, 20, <<"as0", "as1", "as2">>)
  @@ "a:work"    :> Def("work", "a", "void", <<>>, 30, <<"aw0", "aw1", "aw2", "aw3", "aw4">>)
  @@ "a:boot"    :> InSection(Def("boot", "a", "void", <<>>, 40, <<"ab0">>), ".init.text")
  @@ "a:initcb"  :> Taken(InSection(Def("initcb", "a", "i32", <<"i32", "i32">>, 45, <<"ai0">>), ".init.text"))
  @@ "a:fuzz"    :> Def("LLVMFuzzerTestOneInput", "a", "i32", <<"i8p", "i64">>, 50, <<"af0">>)
  @@ "a:add"     :> Taken(Def("add", "a", "i32", <<"i32", "i32">>, 60, <<"aa0">>))
  @@ "a:mul"     :> Taken(Def("mul_disguise", "a", "i32", <<"i64", "i64">>, 62, <<"ax0">>))
  @@ "a:vlog"    :> Taken([Def("vlog", "a", "void", <<"i32">>, 64, <<"av0">>) EXCEPT !.vararg = TRUE])
  @@ "a:vsum"    :> Taken([Def("vsum", "a", "i32", <<"i32">>, 65, <<"avs0">>) EXCEPT !.vararg = TRUE])
  @@ "a:one"     :> Taken(Def("one", "a", "i32", <<"i32">>, 66, <<"ao0">>))
  @@ "a:fptr"    :> Taken(Def("fptr", "a", "i32", <<"i32p", "i32">>, 68, <<"ap0">>))
  @@ "a:cb8"     :> Taken(Def("cb8", "a", "void", <<"i8p">>, 70, <<"ac0">>))
  @@ "a:cbA"     :> Taken(Def("cbA", "a", "void", <<"Ap">>, 72, <<"ad0">>))
  @@ "a:dret"    :> Taken(Def("dret", "a", "double", <<"i32", "i32">>, 74, <<"ar0">>))
  @@ "a:cfgz"    :> Def("cfg_Zero", "a", "void", <<>>, 80, <<"az0">>)
  @@ "a:sub"     :> Taken(Decl("sub", "a", "i32", <<"i32", "i32">>))
  @@ "a:target"  :> Decl("target", "a", "void", <<>>)
  @@ "a:helper"  :> Decl("helper", "a", "void", <<>>)
  @@ "a:ext"     :> Decl("ext", "a", "void", <<>>)
  @@ "a:sysopen" :> Decl("sys_open", "a", "i32", <<"i8p">>)
  @@ "a:dbg"     :> [Decl("llvm.dbg.value", "a", "void", <<>>) EXCEPT !.intrinsic = TRUE, !.dbg = TRUE]
  @@ "b:target"  :> Def("target", "b", "void", <<>>, 10, <<"bt0">>)
  @@ "b:helper"  :> Def("helper", "b", "void", <<>>, 20, <<"bh0">>)
  @@ "b:sub"     :> Def("sub", "b", "i32", <<"i32", "i32">>, 30, <<"bs0">>)
  @@ "b:other"   :> Def("other", "b", "void", <<>>, 40, <<"bo0", "bo1">>)
  @@ "b:sib"     :> Def("sib", "b", "void", <<>>, 50, <<"bi0">>)
  @@ "b:loc"     :> NoSP([Def("loc", "b", "void", <<>>, 60, <<"bl0">>) EXCEPT !.linkage = "internal"])
  @@ "b:sysopen" :> Def("__sys_open", "b", "i32", <<"i8p">>, 70, <<"by0">>)
  @@ "b:zero"    :> Def("_Z4Zerov", "b", "void", <<>>, 80, <<"bz0">>)
  @@ "b:ping"    :> Def("ping", "b", "void", <<>>, 90, <<"bp0", "bp1">>)
  @@ "b:pong"    :> Def("pong", "b", "void", <<>>, 95, <<"bq0">>)

FuncIds == DOMAIN FuncTable

\* Instruction rows.  line = -1: the instruction has no debug location;
\* otherwise its location is (module dir, module file, line).  ret and args
\* are the call's type and argument types, which only the resolution of an
\* indirect call reads.
I0 ==
  [id |-> None, call |-> FALSE, called |-> None, asm |-> FALSE,
   ret |-> "void", args |-> <<>>, line |-> 0 - 1]

Op(ln) == [I0 EXCEPT !.line = ln]
Call(i, f, ln) == [I0 EXCEPT !.id = i, !.call = TRUE, !.called = f, !.line = ln]
ICall(i, r, as, ln) == [I0 EXCEPT !.id = i, !.call = TRUE, !.ret = r, !.args = as, !.line = ln]
Asm(i, ln) == [I0 EXCEPT !.id = i, !.call = TRUE, !.asm = TRUE, !.line = ln]

\* Basic-block rows: parent function, instructions in order, successors
\* (terminator operands, in order) and predecessors (use-list order; an
\* edge taken twice by one terminator lists its source twice).
Block(f, is, ss, ps) == [fn |-> f, insts |-> is, succs |-> ss, preds |-> ps]

BlockRows ==
     "am0" :> Block("a:main", <<Op(0), Call("c_setup", "a:setup", 11), Call("c_initcb", "a:initcb", 12)>>,
                 <<"am1">>, <<>>)
  @@ "am1" :> Block("a:main", <<Call("c_dbg", "a:dbg", 13), ICall("c_ind", "i32", <<"i32", "i32">>, 13),
                             ICall("c_indp", "void", <<"i8p">>, 14), Asm("c_asm", 15), Op(16)>>,
                 <<>>, <<"am0">>)
  @@ "as0" :> Block("a:setup", <<Op(21)>>, <<"as1">>, <<>>)
  @@ "as1" :> Block("a:setup", <<Op(0 - 1), Call("c_work", "a:work", 22)>>, <<"as1", "as2">>, <<"as1", "as0">>)
  @@ "as2" :> Block("a:setup", <<Op(23)>>, <<>>, <<"as1">>)
  @@ "aw0" :> Block("a:work", <<Call("c_ext", "a:ext", 31)>>, <<"aw1", "aw2">>, <<>>)
  @@ "aw1" :> Block("a:work", <<Call("c_helper", "a:helper", 32)>>, <<"aw3", "aw3">>, <<"aw0">>)
  @@ "aw2" :> Block("a:work", <<Op(0 - 1)>>, <<"aw3">>, <<"aw0">>)
  @@ "aw3" :> Block("a:work", <<Call("c_target", "a:target", 34)>>, <<"aw4">>, <<"aw1", "aw1", "aw2">>)
  @@ "aw4" :> Block("a:work", <<Call("c_one", "a:one", 35)>>, <<>>, <<"aw3">>)
  @@ "ab0" :> Block("a:boot", <<Call("c_boot", "a:setup", 41)>>, <<>>, <<>>)
  @@ "ai0" :> Block("a:initcb", <<Call("c_icb", "a:helper", 46)>>, <<>>, <<>>)
  @@ "af0" :> Block("a:fuzz", <<Call("c_fsetup", "a:setup", 51), Call("c_fopen", "a:sysopen", 52)>>, <<>>, <<>>)
  @@ "aa0" :> Block("a:add", <<Op(61)>>, <<>>, <<>>)
  @@ "ax0" :> Block("a:mul", <<Op(63)>>, <<>>, <<>>)
  @@ "av0" :> Block("a:vlog", <<Op(64)>>, <<>>, <<>>)
  @@ "avs0" :> Block("a:vsum", <<Op(65)>>, <<>>, <<>>)
  @@ "ao0" :> Block("a:one", <<Op(67)>>, <<>>, <<>>)
  @@ "ap0" :> Block("a:fptr", <<Op(69)>>, <<>>, <<>>)
  @@ "ac0" :> Block("a:cb8", <<Op(71)>>, <<>>, <<>>)
  @@ "ad0" :> Block("a:cbA", <<Op(73)>>, <<>>, <<>>)
  @@ "ar0" :> Block("a:dret", <<Op(75)>>, <<>>, <<>>)
  @@ "az0" :> Block("a:cfgz", <<Op(81)>>, <<>>, <<>>)
  @@ "bt0" :> Block("b:target", <<Call("c_loc", "b:loc", 11)>>, <<>>, <<>>)
  @@ "bh0" :> Block("b:helper", <<Op(21)>>, <<>>, <<>>)
  @@ "bs0" :> Block("b:sub", <<Op(31)>>, <<>>, <<>>)
  @@ "bo0" :> Block("b:other", <<Call("c_sib", "b:sib", 41), Call("c_ohelp", "b:helper", 42)>>, <<"bo1">>, <<>>)
  @@ "bo1" :> Block("b:other", <<ICall("c_oind", "i32", <<"i32", "i32">>, 43)>>, <<>>, <<"bo0">>)
  @@ "bi0" :> Block("b:sib", <<Op(51)>>, <<>>, <<>>)
  @@ "bl0" :> Block("b:loc", <<Op(0)>>, <<>>, <<>>)
  @@ "by0" :> Block("b:sysopen", <<Op(71)>>, <<>>, <<>>)
  @@ "bz0" :> Block("b:zero", <<Op(81)>>, <<>>, <<>>)
  @@ "bp0" :> Block("b:ping", <<Call("c_pong", "b:pong", 91)>>, <<"bp1">>, <<"bp1">>)
  @@ "bp1" :> Block("b:ping", <<Call("c_self", "b:ping", 92)>>, <<"bp0", "bp1">>, <<"bp1", "bp0">>)
  @@ "bq0" :> Block("b:pong", <<Call("c_ping", "b:ping", 96)>>, <<>>, <<>>)

BlockIds == DOMAIN BlockTable

\* Functions of a module in module order (Module::functions()).
ModuleFuncs ==
  [a |-> <<"a:main", "a:setup", "a:work", "a:boot", "a:initcb", "a:fuzz", "a:add", "a:mul",
           "a:vlog", "a:vsum", "a:one", "a:fptr", "a:cb8", "a:cbA", "a:dret", "a:cfgz",
           "a:sub", "a:target", "a:helper", "a:ext", "a:sysopen", "a:dbg">>,
   b |-> <<"b:target", "b:helper", "b:sub", "b:other", "b:sib", "b:loc", "b:sysopen",
           "b:zero", "b:ping", "b:pong">>]

\* Global variables with initializers (Module::globals()): init is a tree of
\* constants, <<"fn", F>>, <<"arr", <<...>>>> or <<"null">>.
GlobalTable ==
  [a |-> << [name |-> "handler", linkage |-> "external", init |-> <<"fn", "a:sub">>],
            [name |-> "table", linkage |-> "internal",
             init |-> <<"arr", << <<"fn", "a:add">>, <<"fn", "a:one">>, <<"null">> >> >>] >>,
   b |-> << [name |-> "hook", linkage |-> "internal", init |-> <<"fn", "b:loc">>],
            [name |-> "counter", linkage |-> "external", init |-> <<"null">>] >>]

\* Call sites (CallBase instructions), by id.
InstsOf(b) == {BlockTable[b].insts[i] : i \in 1..Len(BlockTable[b].insts)}

RowInsts(b) == {BlockRows[b].insts[i] : i \in 1..Len(BlockRows[b].insts)}

SiteRows ==
  LET ids == {y.id : y \in {x \in UNION {RowInsts(b) : b \in DOMAIN BlockRows} : x.call}}
      blk(c) == CHOOSE x \in DOMAIN BlockRows : \E y \in RowInsts(x) : y.id = c
      ins(c) == CHOOSE y \in RowInsts(blk(c)) : y.id = c
  IN  [c \in ids |->
         [bb |-> blk(c), fn |-> BlockRows[blk(c)].fn, called |-> ins(c).called,
          asm |-> ins(c).asm, ret |-> ins(c).ret, args |-> ins(c).args,
          line |-> ins(c).line]]

SiteIds == DOMAIN SiteTable

\* CB->getCalledFunction(): the called operand when it is a Function.
getCalledFunction(c) == SiteTable[c].called

\* isa<IntrinsicInst>(CB) and isa<DbgInfoIntrinsic>(CB).
IsIntrinsicInst(c) == getCalledFunction(c) # None /\ FuncTable[getCalledFunction(c)].intrinsic
IsDbgInfoIntrinsic(c) == getCalledFunction(c) # None /\ FuncTable[getCalledFunction(c)].dbg

\* Call sites of a block / of a function, in instruction order.
BlockSites(b) ==
  LET calls == SelectSeq(BlockTable[b].insts, LAMBDA r : r.call)
  IN  [i \in 1..Len(calls) |-> calls[i].id]

RECURSIVE ConcatAll(_)
ConcatAll(ss) == IF ss = <<>> THEN <<>> ELSE Head(ss) \o ConcatAll(Tail(ss))

FuncSites(f) ==
  ConcatAll([i \in 1..Len(FuncTable[f].blocks) |-> BlockSites(FuncTable[f].blocks[i])])

BlocksOf(f) == {FuncTable[f].blocks[i] : i \in 1..Len(FuncTable[f].blocks)}

\* F.hasSection() && F.getSection().str() == ".init.text"
InInitText(f) == FuncTable[f].section = ".init.text"

\* Address order of the heap objects: pointer-keyed containers (std::set,
\* std::map, SmallPtrSet, DenseMap) iterate in an order the allocator
\* decides.  The model takes the table order or its reverse.
FuncOrder == ModuleFuncs.a \o ModuleFuncs.b
SiteOrder == ConcatAll([i \in 1..Len(FuncOrder) |-> FuncSites(FuncOrder[i])])

Reverse(q) == [i \in 1..Len(q) |-> q[Len(q) + 1 - i]]

\* ------------------------------------------------------------------------
\* Pointer-keyed containers
\* ------------------------------------------------------------------------

\* Sequence of the members of S in address order.
Order(S, master) ==
  LET q == SelectSeq(master, LAMBDA x : x \in S)
  IN  IF addrOrder = "asc" THEN q ELSE Reverse(q)

\* m[k] of a std::map / DenseMap read without creating the entry.
Get(m, k) == IF k \in DOMAIN m THEN m[k] ELSE {}

\* m[k], which creates an empty entry when k is absent.
Touch(m, k) == IF k \in DOMAIN m THEN m ELSE m @@ (k :> {})

\* m[k].insert(S...)
MapAdd(m, k, S) == IF k \in DOMAIN m THEN [m EXCEPT ![k] = @ \cup S] ELSE m @@ (k :> S)

EmptyMap == [k \in {} |-> {}]

\* ------------------------------------------------------------------------
\* Scope names and the definition registry
\* ------------------------------------------------------------------------

\* getScopeName(GV): the bare name for external linkage, else
\* "_" + stem(module identifier) + "." + name.
ScopeName(name, linkage, m) ==
  IF linkage = "external" THEN name ELSE "_" \o ModuleTable[m].stem \o "." \o name

getScopeName(F) == ScopeName(FuncTable[F].name, FuncTable[F].linkage, FuncTable[F].mod)

\* getVarId(GV)
getVarId(m, g) == ScopeName(g.name, g.linkage, m)

\* The key doBasicInitialization registers a function under.
FuncsKey(F) ==
  LET n == FuncTable[F].name
  IN  IF StartsWith(n, "__sys_") THEN "sys_" \o Substr(n, 6, Len(n)) ELSE n

RECURSIVE RegisterFuncs(_, _)
RegisterFuncs(funcs, fs) ==
  IF fs = <<>> THEN funcs
  ELSE LET F == Head(fs)
           hit == FuncTable[F].linkage = "external" /\ FuncTable[F].blocks # <<>>
       IN  RegisterFuncs(
             IF ~hit THEN funcs
             ELSE IF FuncsKey(F) \in DOMAIN funcs THEN [funcs EXCEPT ![FuncsKey(F)] = F]
             ELSE funcs @@ (FuncsKey(F) :> F),
             Tail(fs))

\* doBasicInitialization(M), its Funcs part.
doBasicInitialization(funcs, m) == RegisterFuncs(funcs, ModuleFuncs[m])

\* CallGraphPass::getFuncDef
getFuncDef(F) ==
  IF getScopeName(F) \in DOMAIN Funcs THEN Funcs[getScopeName(F)] ELSE F

\* ------------------------------------------------------------------------
\* Call-graph pass (CallGraph.cc)
\* ------------------------------------------------------------------------

\* The parameter loop of findCalleesByType: every formal is compatible with
\* the actual at its position.  Every variadic function of the program has
\* no more fixed parameters than any indirect call site has arguments, so
\* the argument iterator stays inside the argument list.
ParamsMatched(F, CB) ==
  \A i \in 1..Len(FuncTable[F].params) :
     i <= Len(SiteTable[CB].args) /\ isCompatibleType(FuncTable[F].params[i], SiteTable[CB].args[i])

\* One iteration of findCalleesByType's loop: whether F is inserted.
Admits(F, CB) ==
  /\ \/ FuncTable[F].vararg
     \/ /\ Len(FuncTable[F].params) = Len(SiteTable[CB].args)
        /\ isCompatibleType(FuncTable[F].ret, SiteTable[CB].ret)
  /\ ~FuncTable[F].intrinsic
  /\ ParamsMatched(F, CB)

\* CallGraphPass::findCalleesByType: the functions inserted into FS.
findCalleesByType(CB) == {F \in AddressTakenFuncs : Admits(F, CB)}

\* A findCallees that inserts the called function as the call names it.
findCalleesNoDef(CB) ==
  IF getCalledFunction(CB) # None THEN {getCalledFunction(CB)} ELSE findCalleesByType(CB)

\* CallGraphPass::findCallees: the functions inserted into FS.
findCallees(CB) ==
  IF getCalledFunction(CB) # None THEN {getFuncDef(getCalledFunction(CB))}
  ELSE findCalleesByType(CB)

\* findCallees' boolean result: FS.insert(CF).second for a direct call, and
\* findCalleesByType's constant false for an indirect one.
findCalleesResult(FS, CB) ==
  getCalledFunction(CB) # None /\ getFuncDef(getCalledFunction(CB)) \notin FS

\* The call sites runOnFunction resolves: none of a function in .init.text,
\* else every call that is neither inline asm nor a call of an intrinsic.
ResolvedSites(F) ==
  IF InInitText(F) THEN <<>>
  ELSE SelectSeq(FuncSites(F), LAMBDA c : ~SiteTable[c].asm /\ ~IsIntrinsicInst(c))

\* CallGraphPass::runOnFunction over the call sites cs: the new Callees and
\* IndirectCallInsts.  (With TYPE_BASED defined nothing sets Changed.)
RECURSIVE runOnSites(_, _, _)
runOnSites(callees, indirect, cs) ==
  IF cs = <<>> THEN [Callees |-> callees, IndirectCallInsts |-> indirect]
  ELSE LET CB == Head(cs)
       IN  runOnSites(MapAdd(callees, CB, findCallees(CB)),
                      IF getCalledFunction(CB) = None THEN Append(indirect, CB) ELSE indirect,
                      Tail(cs))

\* A pass that starts each function from an empty callee map.
runOnFunctionFromEmpty(callees, indirect, F) ==
  runOnSites([k \in {} |-> {}], indirect, ResolvedSites(F))

runOnFunction(callees, indirect, F) == runOnSites(callees, indirect, ResolvedSites(F))

\* CallGraphPass::processInitializers for function constants and constant
\* arrays of them (V is the global's id, None once the walk left it).
RECURSIVE processInitializers(_, _, _)
RECURSIVE processElements(_, _, _)
processElements(fp, es, V) ==
  IF es = <<>> THEN fp ELSE processElements(processInitializers(fp, Head(es), V), Tail(es), V)

processInitializers(fp, C, V) ==
  IF C[1] = "arr" THEN processElements(fp, C[2], V)
  ELSE IF C[1] = "fn" /\ V # None THEN MapAdd(fp, V, {getFuncDef(C[2])})
  ELSE fp

RECURSIVE processGlobals(_, _, _)
processGlobals(fp, m, gs) ==
  IF gs = <<>> THEN fp
  ELSE processGlobals(processInitializers(fp, Head(gs).init, getVarId(m, Head(gs))), m, Tail(gs))

\* CallGraphPass::doInitialization, the functions it adds to AddressTakenFuncs.
AddressTakenIn(m) ==
  {F \in FuncIds : FuncTable[F].mod = m /\ ~InInitText(F) /\ FuncTable[F].addrTaken}

\* A finalization that inverts the direct calls only.
FinalizedSitesDirect(m) ==
  {c \in SiteIds : FuncTable[SiteTable[c].fn].mod = m /\ getCalledFunction(c) # None}

\* CallGraphPass::doFinalization visits every call of every function of M
\* but the debug-info intrinsics.
FinalizedSites(m) ==
  {c \in SiteIds : FuncTable[SiteTable[c].fn].mod = m /\ ~IsDbgInfoIntrinsic(c)}

\* A finalization that rebuilds the callers map from the sites of the module
\* at hand alone, dropping what earlier modules and earlier runs recorded.
RECURSIVE invertCalleesRebuilt(_, _, _)
invertCalleesRebuilt(callers, callees, cs) ==
  IF cs = {} THEN [k \in {} |-> {}]
  ELSE LET CB == CHOOSE c \in cs : TRUE
           FS == Get(callees, CB)
           rest == invertCalleesRebuilt(callers, callees, cs \ {CB})
       IN  [k \in DOMAIN rest \cup FS |-> Get(rest, k) \cup (IF k \in FS THEN {CB} ELSE {})]

RECURSIVE invertCallees(_, _, _)
invertCallees(callers, callees, cs) ==
  IF cs = {} THEN callers
  ELSE LET CB == CHOOSE c \in cs : TRUE
           FS == Get(callees, CB)
           add == [CF \in FS |-> {CB}]
           keys == DOMAIN callers \cup FS
       IN  invertCallees([k \in keys |-> Get(callers, k) \cup Get(add, k)], callees, cs \ {CB})

\* doFinalization's effect on Callees: Ctx->Callees[CB] creates the entry.
RECURSIVE touchAll(_, _)
touchAll(m, ks) ==
  IF ks = {} THEN m
  ELSE LET k == CHOOSE x \in ks : TRUE IN touchAll(Touch(m, k), ks \ {k})

\* ------------------------------------------------------------------------
\* Slicer (Slicing.cc).  A slicer state st is the Slicing object's members
\* together with Ctx_->Callers, which addToVerbose can extend with keys.
\* ------------------------------------------------------------------------

FreshSl ==
  [visitedF |-> {}, verboseF |-> {}, visitedBB |-> {}, fVisitedF |-> {}, verboseBB |-> {},
   slicedFuncCnt |-> 1]

WithCallers(sl, callers) ==
  [visitedF |-> sl.visitedF, verboseF |-> sl.verboseF, visitedBB |-> sl.visitedBB,
   fVisitedF |-> sl.fVisitedF, verboseBB |-> sl.verboseBB,
   slicedFuncCnt |-> sl.slicedFuncCnt, Callers |-> callers]

SlOf(st) ==
  [visitedF |-> st.visitedF, verboseF |-> st.verboseF, visitedBB |-> st.visitedBB,
   fVisitedF |-> st.fVisitedF, verboseBB |-> st.verboseBB,
   slicedFuncCnt |-> st.slicedFuncCnt]

\* Slicing::clear
clear(sl) == FreshSl

\* Slicing::intraCanReach: the DFS over successors, toVisit a stack whose
\* top is the last element.
RECURSIVE canReachLoop(_, _, _)
canReachLoop(visited, toVisit, dst) ==
  IF toVisit = <<>> THEN FALSE
  ELSE LET current == toVisit[Len(toVisit)]
           rest == SubSeq(toVisit, 1, Len(toVisit) - 1)
       IN  IF current \in visited THEN canReachLoop(visited, rest, dst)
           ELSE IF current = dst THEN TRUE
           ELSE canReachLoop(visited \cup {current}, rest \o BlockTable[current].succs, dst)

intraCanReach(src, dst) == canReachLoop({}, <<src>>, dst)

\* The functions addToVerbose(F) inserts besides F: the direct callees of
\* the non-intrinsic calls, in the enclosing functions of F's callers, whose
\* block reaches the caller's block.
Siblings(CBS) ==
  {getCalledFunction(c2) :
     c2 \in {c \in SiteIds :
               /\ ~IsIntrinsicInst(c)
               /\ \E CB \in CBS :
                    /\ SiteTable[c].fn = SiteTable[CB].fn
                    /\ intraCanReach(SiteTable[c].bb, SiteTable[CB].bb)}} \ {None}

\* Slicing::addToVerbose
addToVerbose(st, F) ==
  IF F \in st.verboseF THEN st
  ELSE LET callers == Touch(st.Callers, F)
       IN  [st EXCEPT !.verboseF = @ \cup {F} \cup Siblings(callers[F]), !.Callers = callers]

\* The predecessors backtracking's loop looks at: the scan stops at the
\* first predecessor equal to the one before it.
RECURSIVE predScan(_, _)
predScan(ps, lastPred) ==
  IF ps = <<>> \/ Head(ps) = lastPred THEN <<>>
  ELSE <<Head(ps)>> \o predScan(Tail(ps), Head(ps))

\* The DFS of Slicing::backtracking: the new visitedBB_.
RECURSIVE backtrackLoop(_, _)
backtrackLoop(visitedBB, toVisit) ==
  IF toVisit = <<>> THEN visitedBB
  ELSE LET current == toVisit[Len(toVisit)]
           rest == SubSeq(toVisit, 1, Len(toVisit) - 1)
           now == visitedBB \cup {current}
       IN  IF current \in visitedBB THEN backtrackLoop(visitedBB, rest)
           ELSE backtrackLoop(now,
                  rest \o SelectSeq(predScan(BlockTable[current].preds, None),
                                    LAMBDA p : p \notin now))

\* The blocks sliceFunction queues: of the entries of Callers whose key has
\* F's name, the blocks of their call sites not yet in visitedBB_.
toProcessOf(st, F) ==
  LET matching == Order({G \in DOMAIN st.Callers : FuncTable[G].name = FuncTable[F].name},
                        FuncOrder)
      blocks(G) == LET cbs == Order(st.Callers[G], SiteOrder)
                   IN  [i \in 1..Len(cbs) |-> SiteTable[cbs[i]].bb]
      all == ConcatAll([i \in 1..Len(matching) |-> blocks(matching[i])])
  IN  SelectSeq(all, LAMBDA b : b \notin st.visitedBB)

HasCallers(st, F) ==
  \E G \in DOMAIN st.Callers : FuncTable[G].name = FuncTable[F].name /\ st.Callers[G] # {}

RECURSIVE sliceFunction(_, _)
RECURSIVE backtracking(_, _)
RECURSIVE sliceQueue(_, _)

\* The while loop of sliceFunction over toProcess.
sliceQueue(st, toProcess) ==
  IF toProcess = <<>> THEN st
  ELSE sliceQueue(backtracking(st, Head(toProcess)), Tail(toProcess))

\* A backtracking that stays inside the block's function.
backtrackingLocal(st, BB) == [st EXCEPT !.visitedBB = backtrackLoop(@, <<BB>>)]

\* Slicing::backtracking
backtracking(st, BB) ==
  sliceFunction([st EXCEPT !.visitedBB = backtrackLoop(@, <<BB>>)], BlockTable[BB].fn)

\* A sliceFunction that counts the caller set of a function again each time
\* it is entered for that function.
sliceFunctionRecounting(st, F) ==
  IF F \in st.visitedF
  THEN (IF HasCallers(st, F) THEN [st EXCEPT !.slicedFuncCnt = @ + 1] ELSE st)
  ELSE LET st1 == [st EXCEPT !.visitedF = @ \cup {F}, !.visitedBB = @ \cup BlocksOf(F)]
           st2 == addToVerbose(st1, F)
           st3 == sliceQueue(st2, toProcessOf(st2, F))
       IN  IF HasCallers(st2, F)
           THEN [st3 EXCEPT !.slicedFuncCnt = @ + 1]
           ELSE st3

\* Slicing::sliceFunction
sliceFunction(st, F) ==
  IF F \in st.visitedF THEN st
  ELSE LET st1 == [st EXCEPT !.visitedF = @ \cup {F}, !.visitedBB = @ \cup BlocksOf(F)]
           st2 == addToVerbose(st1, F)
           st3 == sliceQueue(st2, toProcessOf(st2, F))
       IN  IF HasCallers(st2, F)
           THEN [st3 EXCEPT !.slicedFuncCnt = @ + 1]
           ELSE st3

\* The callees forwardSlicingFunction newly inserts into fVisitedF_, in order.
RECURSIVE newCallees(_, _)
newCallees(fVisitedF, cand) ==
  IF cand = <<>> THEN <<>>
  ELSE IF Head(cand) \in fVisitedF THEN newCallees(fVisitedF, Tail(cand))
  ELSE <<Head(cand)>> \o newCallees(fVisitedF \cup {Head(cand)}, Tail(cand))

\* The callees of the call sites of a block that have a Callees entry.
CalleeSeq(b) ==
  LET cs == SelectSeq(BlockSites(b), LAMBDA c : c \in DOMAIN Callees)
  IN  ConcatAll([i \in 1..Len(cs) |-> Order(Callees[cs[i]], FuncOrder)])

\* The BFS of Slicing::forwardSlicingFunction.
RECURSIVE forwardLoop(_, _, _)
forwardLoop(st, visited, toVisit) ==
  IF toVisit = <<>> THEN st
  ELSE LET current == Head(toVisit)
           st1 == [st EXCEPT !.verboseBB = @ \cup {current}]
       IN  IF current \in visited THEN forwardLoop(st1, visited, Tail(toVisit))
           ELSE LET new == newCallees(st1.fVisitedF, CalleeSeq(current))
                    st2 == [st1 EXCEPT !.fVisitedF = @ \cup {new[i] : i \in 1..Len(new)}]
                IN  forwardLoop(st2, visited \cup {current},
                      Tail(toVisit) \o ConcatAll([i \in 1..Len(new) |-> FuncTable[new[i]].blocks]))

\* Slicing::forwardSlicingFunction
forwardSlicingFunction(st, F) == forwardLoop(st, {}, FuncTable[F].blocks)

\* Module::getFunction(name) over Modules in load order: the first module's
\* function of that name, declaration or definition.
getFunctionByName(name) ==
  LET hits == SelectSeq(ConcatAll([i \in 1..Len(Modules) |-> ModuleFuncs[Modules[i]]]),
                        LAMBDA F : FuncTable[F].name = name)
  IN  IF hits = <<>> THEN None ELSE Head(hits)

\* Slicing::forwardSlicingFunctionStub
forwardSlicingFunctionStub(st, funcName) ==
  IF getFunctionByName(funcName) = None THEN st
  ELSE forwardSlicingFunction(st, getFunctionByName(funcName))

\* Slicing::forwardSlicingFunctionWithDepth: the new *visited.
RECURSIVE forwardSlicingFunctionWithDepth(_, _, _)
RECURSIVE forwardDepthCallees(_, _, _)
forwardDepthCallees(cs, depth, visited) ==
  IF cs = <<>> THEN visited
  ELSE forwardDepthCallees(Tail(cs), depth,
                           forwardSlicingFunctionWithDepth(Head(cs), depth - 1, visited))

forwardSlicingFunctionWithDepth(F, depth, visited) ==
  IF depth = 0 THEN visited \cup {F}
  ELSE forwardDepthCallees(
         ConcatAll([i \in 1..Len(FuncTable[F].blocks) |-> CalleeSeq(FuncTable[F].blocks[i])]),
         depth, visited \cup {F})

\* ------------------------------------------------------------------------
\* Path normalizer (Slicing::normalizePath, CallGraphPass::normalizePath)
\* ------------------------------------------------------------------------

\* The components std::getline(ss, component, '/') yields: the text between
\* separators; the empty text after a final separator yields none.
RECURSIVE splitPath(_, _)
splitPath(s, component) ==
  IF s = "" THEN (IF component = "" THEN <<>> ELSE <<component>>)
  ELSE IF Head(s) = "/" THEN <<component>> \o splitPath(Tail(s), "")
  ELSE splitPath(Tail(s), component \o Head(s))

\* A normalizer that keeps the "." components on its stack.
RECURSIVE foldComponentsKeepDot(_, _)
foldComponentsKeepDot(components, cs) ==
  IF cs = <<>> THEN components
  ELSE IF Head(cs) = ".." THEN
       foldComponentsKeepDot(IF components # <<>> THEN SubSeq(components, 1, Len(components) - 1)
                             ELSE components, Tail(cs))
  ELSE IF Head(cs) # "" THEN foldComponentsKeepDot(Append(components, Head(cs)), Tail(cs))
  ELSE foldComponentsKeepDot(components, Tail(cs))

RECURSIVE foldComponents(_, _)
foldComponents(components, cs) ==
  IF cs = <<>> THEN components
  ELSE IF Head(cs) = ".." THEN
       foldComponents(IF components # <<>> THEN SubSeq(components, 1, Len(components) - 1)
                      ELSE components, Tail(cs))
  ELSE IF Head(cs) # "." /\ Head(cs) # "" THEN foldComponents(Append(components, Head(cs)), Tail(cs))
  ELSE foldComponents(components, Tail(cs))

RECURSIVE joinComponents(_)
joinComponents(cs) == IF cs = <<>> THEN "" ELSE Head(cs) \o "/" \o joinComponents(Tail(cs))

normalizePath(pathStr) ==
  LET joined == joinComponents(foldComponents(<<>>, splitPath(pathStr, "")))
      normalizedPath == IF pathStr # "" /\ Head(pathStr) = "/" THEN "/" \o joined ELSE joined
  IN  \* substr(0, size() - 1); for the empty string size() - 1 is npos
      IF normalizedPath = "" THEN "" ELSE SubSeq(normalizedPath, 1, Len(normalizedPath) - 1)

\* ------------------------------------------------------------------------
\* callgraph_result (CallGraph.cc, dumpCallers)
\* ------------------------------------------------------------------------

\* The location string of dumpCallers: directory, "/", the filename
\* (normalized when it contains ".."), ":", the line.
LocationString(m, line) ==
  LET file == IF Contains(ModuleTable[m].file, "..") THEN normalizePath(ModuleTable[m].file)
              ELSE ModuleTable[m].file
  IN  ModuleTable[m].dir \o "/" \o file \o ":" \o ToString(line)

\* dumpCallers' getLocation lambda for the debug location of a call site.
getLocation(CB) == LocationString(FuncTable[SiteTable[CB].fn].mod, SiteTable[CB].line)

\* The inner loop of dumpCallers over the call sites of one Callers entry.
RECURSIVE dumpCallSites(_, _, _)
dumpCallSites(outString, calleeInfo, cbs) ==
  IF cbs = <<>> THEN outString
  ELSE LET CB == Head(cbs)
           directCall == \/ SiteTable[CB].asm
                         \/ getCalledFunction(CB) # None
                         \/ Get(Callees, CB) = {}
           line == getLocation(CB) \o ":" \o calleeInfo \o ":"
                     \o (IF directCall THEN "1" ELSE "0")
       IN  dumpCallSites(
             IF SiteTable[CB].line > 0 /\ calleeInfo # "" THEN Append(outString, line)
             ELSE outString,
             calleeInfo, Tail(cbs))

\* CallGraphPass::dumpCallers: the lines written to callgraph_result.
\* calleeInfo is assigned only for a function with a subprogram and keeps
\* its value otherwise.
RECURSIVE dumpCallers(_, _, _)
dumpCallers(outString, calleeInfo, fs) ==
  IF fs = <<>> THEN outString
  ELSE LET F == Head(fs)
           info == IF FuncTable[F].sp
                   THEN LocationString(FuncTable[F].mod, FuncTable[F].spLine)
                   ELSE calleeInfo
       IN  dumpCallers(dumpCallSites(outString, info, Order(Callers[F], SiteOrder)),
                       info, Tail(fs))

\* ------------------------------------------------------------------------
\* Target locator and output emitter (Slicing.cc)
\* ------------------------------------------------------------------------

LoadedFuncs == ConcatAll([i \in 1..Len(Modules) |-> ModuleFuncs[Modules[i]]])

\* Slicing::findTargetByFunctionName: the first function with a basic block
\* whose name is funcName, or contains funcName and contains "_Z".
findTargetByFunctionName(funcName) ==
  LET hits == SelectSeq(LoadedFuncs,
                LAMBDA F : /\ FuncTable[F].blocks # <<>>
                           /\ \/ FuncTable[F].name = funcName
                              \/ /\ Contains(FuncTable[F].name, funcName)
                                 /\ Contains(FuncTable[F].name, "_Z"))
  IN  IF hits = <<>> THEN None ELSE Head(hits)

\* Slicing::findTargetByLine: the first block, of a module whose name
\* contains fileName, holding an instruction located at that line.
findTargetByLine(fileName, line) ==
  LET fs == SelectSeq(LoadedFuncs,
              LAMBDA F : Contains(ModuleTable[FuncTable[F].mod].ident, fileName))
      bs == ConcatAll([i \in 1..Len(fs) |-> FuncTable[fs[i]].blocks])
      hits == SelectSeq(bs, LAMBDA b : \E r \in InstsOf(b) : r.line >= 0 /\ r.line = line)
  IN  IF hits = <<>> THEN None ELSE Head(hits)

\* Slicing::cacheAllLLVMObjects: fullFunc_, the names of the functions that
\* carry a debug subprogram.
cacheAllLLVMObjects ==
  {FuncTable[F].name : F \in {G \in FuncIds : FuncTable[G].mod \in {Modules[i] : i \in 1..Len(Modules)}
                                            /\ FuncTable[G].sp}}

\* The "block:" line dump writes for a block: that of its first instruction
\* with a debug location of non-zero line; None when it has none.
BlockLine(b) ==
  LET located == SelectSeq(BlockTable[b].insts, LAMBDA r : r.line > 0)
      m == ModuleTable[FuncTable[BlockTable[b].fn].mod]
      file == IF Contains(m.file, "..") THEN normalizePath(m.file) ELSE m.file
  IN  IF located = <<>> THEN None
      ELSE "block:" \o m.dir \o "/" \o file \o ":" \o ToString(located[1].line) \o ":100"

RECURSIVE forwardAll(_, _)
forwardAll(st, fs) ==
  IF fs = <<>> THEN st ELSE forwardAll(forwardSlicingFunction(st, Head(fs)), Tail(fs))

RECURSIVE depthAll(_, _)
depthAll(visited, fs) ==
  IF fs = <<>> THEN visited
  ELSE depthAll(forwardSlicingFunctionWithDepth(Head(fs), 1, visited), Tail(fs))

NamesOf(S) == {FuncTable[F].name : F \in S}
ParentsOf(bs) == {BlockTable[b].fn : b \in bs}

\* The slicer state after dump's forward expansion of verboseF_.
dumpState(st) == forwardAll(st, Order(st.verboseF, FuncOrder))

\* Slicing::dump: the five sets written, one line per element.
dumpFiles(st, full) ==
  LET st1 == dumpState(st)
      visitedFuncsWithDepth == depthAll({}, Order(st1.verboseF, FuncOrder))
      uniqueOutputs == {BlockLine(b) : b \in st1.visitedBB} \ {None}
      uniqueOutputsVerbose == {BlockLine(b) : b \in st1.visitedBB} \ {None}
      uniqueOutputsFunc ==
        NamesOf(st1.verboseF) \cup NamesOf(visitedFuncsWithDepth) \cup NamesOf(ParentsOf(st1.visitedBB))
      uniqueOutputsFuncVerbose ==
        NamesOf(ParentsOf(st1.visitedBB)) \cup NamesOf(ParentsOf(st1.verboseBB))
  IN  [slice |-> uniqueOutputs, sliceVerbose |-> uniqueOutputsVerbose,
       func |-> uniqueOutputsFunc, funcVerbose |-> uniqueOutputsFuncVerbose,
       blacklist |-> full \ uniqueOutputsFuncVerbose]

\* The query of one target: sliceFunction, forwardSlicingFunction and the
\* three fuzz-entry stubs (KAMain.cc, lines 327-333 and 373-379).
forwardQuery(st, F) ==
  forwardSlicingFunctionStub(
    forwardSlicingFunctionStub(
      forwardSlicingFunctionStub(forwardSlicingFunction(st, F), "LLVMFuzzerInitialize"),
      "LLVMFuzzerTestOneInput"),
    "LLVMFuzzerRunDriver")

\* ------------------------------------------------------------------------
\* main() (KAMain.cc): load, call-graph pass, slicing, output
\* ------------------------------------------------------------------------

\* Bound on the number of lines read from the --multi file.
MaxPairs == 2

\* Function names and (file, line) points a query may ask for.
TargetNames == {"target", "helper", "work", "sub", "add", "Zero", "ping", "nosuch"}
TargetFiles == {"a", "b.bc", "zzz"}
TargetLines == {11, 22, 34, 999}

InputLists == {<<"a", "b">>, <<"b", "a">>, <<"a">>, <<"b">>}

\* The options of lines 54-82 that main tests: given or left at their
\* cl::init value ("" or 0).
ArgSets == [file : BOOLEAN, multi : BOOLEAN, line : BOOLEAN, func : BOOLEAN, srcroot : BOOLEAN]

Init ==
  /\ FuncTable = FuncRows
  /\ BlockTable = BlockRows
  /\ SiteTable = SiteRows
  /\ InputFilenames \in InputLists
  /\ addrOrder \in {"asc", "desc"}
  /\ args \in ArgSets
  /\ pc = "args"
  /\ idx = 1
  /\ fidx = 1
  /\ Changed = FALSE
  /\ ret = FALSE
  /\ changed = 0
  /\ Modules = <<>>
  /\ Funcs = [k \in {} |-> None]
  /\ AddressTakenFuncs = {}
  /\ FuncPtrs = EmptyMap
  /\ Callees = EmptyMap
  /\ Callers = EmptyMap
  /\ IndirectCallInsts = <<>>
  /\ Sl = FreshSl
  /\ fullFunc = {}
  /\ lines = <<>>
  /\ cur = None
  /\ files = EmptyMap
  /\ callgraph_result = <<>>
  /\ exit = None
  /\ reruns = 0
  /\ inputPath = ""
  /\ normalized = ""
  /\ FormalTy = "void"
  /\ ActualTy = "void"
  /\ compatible = FALSE
  /\ callStack = <<>>
  /\ wpc = <<>>
  /\ outBuf = <<>>
  /\ bcFile = NoFile

\* main, lines 193-205: the three tests on the parsed options; each one
\* that fails returns -1.
ValidArguments(a) ==
  /\ ~(~a.file /\ ~a.multi)
  /\ ~(~a.line /\ ~a.func /\ ~a.multi)
  /\ a.srcroot

ValidateArguments ==
  /\ pc = "args"
  /\ IF ValidArguments(args)
     THEN pc' = "load" /\ exit' = exit
     ELSE pc' = "done" /\ exit' = "-1"
  /\ UNCHANGED <<inputs, frames, bitcode, paths, types, reruns, callgraph_result, idx, fidx, Changed, ret, changed,
                 Modules, Funcs, AddressTakenFuncs, FuncPtrs, Callees, Callers,
                 IndirectCallInsts, Sl, fullFunc, lines, cur, files>>

\* main, lines 210-232: parse one input file, append the module, register
\* its definitions (doBasicInitialization).
LoadModule ==
  /\ pc = "load"
  /\ Modules' = Append(Modules, InputFilenames[idx])
  /\ Funcs' = doBasicInitialization(Funcs, InputFilenames[idx])
  /\ IF idx = Len(InputFilenames)
     THEN pc' = "init" /\ idx' = 1
     ELSE pc' = pc /\ idx' = idx + 1
  /\ UNCHANGED <<inputs, frames, bitcode, paths, types, reruns, callgraph_result, fidx, Changed, ret, changed, AddressTakenFuncs,
                 FuncPtrs, Callees, Callers, IndirectCallInsts, Sl, fullFunc, lines, cur,
                 files, exit>>

\* IterativeModulePass::run, first loop: doInitialization of one module.
\* doInitialization returns false, so the loop makes one pass.
DoInitialization ==
  /\ pc = "init"
  /\ FuncPtrs' = processGlobals(FuncPtrs, Modules[idx], GlobalTable[Modules[idx]])
  /\ AddressTakenFuncs' = AddressTakenFuncs \cup AddressTakenIn(Modules[idx])
  /\ IF idx = Len(Modules)
     THEN pc' = "pass" /\ idx' = 1
     ELSE pc' = pc /\ idx' = idx + 1
  /\ UNCHANGED <<inputs, frames, bitcode, paths, types, reruns, callgraph_result, fidx, Changed, ret, changed, Modules, Funcs,
                 Callees, Callers, IndirectCallInsts, Sl, fullFunc, lines, cur, files, exit>>

\* runOnFunction's return value: Changed, which nothing sets when
\* TYPE_BASED is defined.
runOnFunctionChanged(F) == FALSE

\* doModulePass, one call of runOnFunction, with the loop control of
\* doModulePass (repeat the sweep while Changed) and of run (repeat over
\* all modules while some module changed).
RunOnFunction ==
  /\ pc = "pass"
  /\ LET F == ModuleFuncs[Modules[idx]][fidx]
         r == runOnFunction(Callees, IndirectCallInsts, F)
         sweepChanged == Changed \/ runOnFunctionChanged(F)
         endOfSweep == fidx = Len(ModuleFuncs[Modules[idx]])
         moduleRet == ret \/ sweepChanged
         moduleDone == endOfSweep /\ ~sweepChanged
         runChanged == IF moduleDone /\ moduleRet THEN changed + 1 ELSE changed
         runDone == moduleDone /\ idx = Len(Modules)
     IN  /\ Callees' = r.Callees
         /\ IndirectCallInsts' = r.IndirectCallInsts
         /\ fidx' = IF endOfSweep THEN 1 ELSE fidx + 1
         /\ Changed' = IF endOfSweep THEN FALSE ELSE sweepChanged
         /\ ret' = IF moduleDone THEN FALSE ELSE IF endOfSweep THEN moduleRet ELSE ret
         /\ idx' = IF runDone THEN 1 ELSE IF moduleDone THEN idx + 1 ELSE idx
         /\ changed' = IF runDone THEN 0 ELSE runChanged
         /\ pc' = IF runDone /\ runChanged = 0 THEN "final" ELSE pc
  /\ UNCHANGED <<inputs, frames, bitcode, paths, types, reruns, callgraph_result, Modules, Funcs, AddressTakenFuncs, FuncPtrs,
                 Callers, Sl, fullFunc, lines, cur, files, exit>>

\* IterativeModulePass::run, last loop: doFinalization of one module.
DoFinalization ==
  /\ pc = "final"
  /\ Callees' = touchAll(Callees, FinalizedSites(Modules[idx]))
  /\ Callers' = invertCallees(Callers, Callees, FinalizedSites(Modules[idx]))
  /\ IF idx = Len(Modules)
     THEN pc' = "callers" /\ idx' = 1
     ELSE pc' = pc /\ idx' = idx + 1
  /\ UNCHANGED <<inputs, frames, bitcode, paths, types, reruns, callgraph_result, fidx, Changed, ret, changed, Modules, Funcs,
                 AddressTakenFuncs, FuncPtrs, IndirectCallInsts, Sl, fullFunc, lines, cur,
                 files, exit>>

\* main, lines 273-274: dumpCallees, which writes nothing (its callerInfo
\* stays empty), and dumpCallers.
DumpCallers ==
  /\ pc = "callers"
  /\ callgraph_result' = dumpCallers(<<>>, "", Order(DOMAIN Callers, FuncOrder))
  /\ pc' = "cache"
  /\ UNCHANGED <<inputs, frames, bitcode, paths, types, reruns, idx, fidx, Changed, ret, changed, Modules, Funcs,
                 AddressTakenFuncs, FuncPtrs, Callees, Callers, IndirectCallInsts, Sl,
                 fullFunc, lines, cur, files, exit>>

\* main, line 284: Sl.cacheAllLLVMObjects().
CacheAllLLVMObjects ==
  /\ pc = "cache"
  /\ fullFunc' = cacheAllLLVMObjects
  /\ pc' = mode
  /\ UNCHANGED <<inputs, frames, bitcode, paths, types, reruns, callgraph_result, idx, fidx, Changed, ret, changed, Modules,
                 Funcs, AddressTakenFuncs, FuncPtrs, Callees, Callers, IndirectCallInsts, Sl,
                 lines, cur, files, exit>>

\* A batch loop that ends the run at the first pair that is not found, as
\* the single-target branch does.
MultiReadAbortsOnMiss ==
  /\ pc = "multi"
  /\ Len(lines) < MaxPairs
  /\ \E func \in TargetNames :
       /\ lines' = Append(lines, func)
       /\ cur' = findTargetByFunctionName(func)
       /\ IF findTargetByFunctionName(func) = None
          THEN pc' = "done" /\ exit' = "-1"
          ELSE pc' = "slice" /\ exit' = exit
  /\ UNCHANGED <<inputs, frames, bitcode, paths, types, reruns, callgraph_result, idx, fidx, Changed, ret, changed, Modules,
                 Funcs, AddressTakenFuncs, FuncPtrs, Callees, Callers, IndirectCallInsts, Sl,
                 fullFunc, files>>

\* main, lines 300-324: read one "<file> <func>" line of the --multi file
\* and look the function up; a pair that is not found is skipped.
MultiRead ==
  /\ pc = "multi"
  /\ Len(lines) < MaxPairs
  /\ \E func \in TargetNames :
       /\ lines' = Append(lines, func)
       /\ cur' = findTargetByFunctionName(func)
       /\ pc' = IF findTargetByFunctionName(func) = None THEN "multi" ELSE "slice"
  /\ UNCHANGED <<inputs, frames, bitcode, paths, types, reruns, callgraph_result, idx, fidx, Changed, ret, changed, Modules,
                 Funcs, AddressTakenFuncs, FuncPtrs, Callees, Callers, IndirectCallInsts, Sl,
                 fullFunc, files, exit>>

\* main, lines 355-370: --func in single-target mode.
SingleFunc ==
  /\ pc = "func"
  /\ \E func \in TargetNames :
       /\ lines' = <<func>>
       /\ cur' = findTargetByFunctionName(func)
       /\ IF findTargetByFunctionName(func) = None
          THEN pc' = "done" /\ exit' = "-1"
          ELSE pc' = "slice" /\ exit' = exit
  /\ UNCHANGED <<inputs, frames, bitcode, paths, types, reruns, callgraph_result, idx, fidx, Changed, ret, changed, Modules,
                 Funcs, AddressTakenFuncs, FuncPtrs, Callees, Callers, IndirectCallInsts, Sl,
                 fullFunc, files>>

\* main, lines 327 and 373: Sl.sliceFunction(targetFunc).
SliceBackward ==
  /\ pc = "slice"
  /\ LET st == sliceFunction(WithCallers(Sl, Callers), cur)
     IN  Sl' = SlOf(st) /\ Callers' = st.Callers
  /\ pc' = "forward"
  /\ UNCHANGED <<inputs, frames, bitcode, paths, types, reruns, callgraph_result, idx, fidx, Changed, ret, changed, Modules,
                 Funcs, AddressTakenFuncs, FuncPtrs, Callees, IndirectCallInsts, fullFunc,
                 lines, cur, files, exit>>

\* main, lines 330-333 and 376-379: the forward slices of the target and of
\* the fuzz-entry stubs.
SliceForward ==
  /\ pc = "forward"
  /\ LET st == forwardQuery(WithCallers(Sl, Callers), cur)
     IN  Sl' = SlOf(st) /\ Callers' = st.Callers
  /\ pc' = IF mode = "multi" THEN "multi" ELSE "dump"
  /\ UNCHANGED <<inputs, frames, bitcode, paths, types, reruns, callgraph_result, idx, fidx, Changed, ret, changed, Modules,
                 Funcs, AddressTakenFuncs, FuncPtrs, Callees, IndirectCallInsts, fullFunc,
                 lines, cur, files, exit>>

\* main, lines 345-352: --line in single-target mode: backtracking from the
\* located block.
SingleLine ==
  /\ pc = "line"
  /\ \E fileName \in TargetFiles, line \in TargetLines,
        func \in (IF args.func THEN TargetNames ELSE {""}) :
       LET targetBB == findTargetByLine(fileName, line)
           st == backtracking(WithCallers(Sl, Callers), targetBB)
       IN  /\ cur' = targetBB
           /\ lines' = IF args.func THEN <<func>> ELSE <<>>
           /\ IF targetBB = None
              THEN /\ pc' = "done" /\ exit' = "-1"
                   /\ UNCHANGED <<Sl, Callers>>
              ELSE /\ pc' = "dump" /\ exit' = exit
                   /\ Sl' = SlOf(st) /\ Callers' = st.Callers
  /\ UNCHANGED <<inputs, frames, bitcode, paths, types, reruns, callgraph_result, idx, fidx, Changed, ret, changed, Modules,
                 Funcs, AddressTakenFuncs, FuncPtrs, Callees, IndirectCallInsts, fullFunc,
                 files>>

\* The end of the --multi file.
MultiEOF ==
  /\ pc = "multi"
  /\ pc' = "dump"
  /\ UNCHANGED <<inputs, frames, bitcode, paths, types, reruns, callgraph_result, idx, fidx, Changed, ret, changed, Modules,
                 Funcs, AddressTakenFuncs, FuncPtrs, Callees, Callers, IndirectCallInsts, Sl,
                 fullFunc, lines, cur, files, exit>>

\* The funcName dump is called with: "merged" in batch mode, else the
\* value of --func (empty when --func is not given).
DumpLabel == IF mode = "multi" THEN "merged" ELSE IF lines # <<>> THEN lines[1] ELSE ""

\* main, lines 338 and 392: Sl.dump(...), then return 0.
Dump ==
  /\ pc = "dump"
  /\ LET st == dumpState(WithCallers(Sl, Callers))
         out == dumpFiles(WithCallers(Sl, Callers), fullFunc)
     IN  /\ Sl' = SlOf(st)
         /\ files' = (DumpLabel \o ".slice" :> out.slice)
                  @@ (DumpLabel \o ".slice.verbose" :> out.sliceVerbose)
                  @@ (DumpLabel \o ".func" :> out.func)
                  @@ (DumpLabel \o ".func.verbose" :> out.funcVerbose)
                  @@ (DumpLabel \o ".func.blacklist" :> out.blacklist)
  /\ pc' = "done"
  /\ exit' = "0"
  /\ UNCHANGED <<inputs, frames, bitcode, paths, types, reruns, callgraph_result, idx, fidx, Changed, ret, changed, Modules,
                 Funcs, AddressTakenFuncs, FuncPtrs, Callees, Callers, IndirectCallInsts,
                 fullFunc, lines, cur>>

Next ==
  \/ ValidateArguments
  \/ LoadModule
  \/ DoInitialization
  \/ RunOnFunction
  \/ DoFinalization
  \/ DumpCallers
  \/ CacheAllLLVMObjects
  \/ MultiRead
  \/ MultiEOF
  \/ SingleFunc
  \/ SingleLine
  \/ SliceBackward
  \/ SliceForward
  \/ Dump

Spec == Init /\ [][Next]_vars

\* ------------------------------------------------------------------------
\* The path normalizer taken alone: normalizePath applied to a path, then
\* to its own result.
\* ------------------------------------------------------------------------

MaxSegments == 3

\* An ordinary name, ".", ".." and the empty segment.
SegmentNames == {"a", "b", ".", "..", ""}

RECURSIVE JoinSegments(_)
JoinSegments(segs) ==
  IF segs = <<>> THEN ""
  ELSE IF Len(segs) = 1 THEN Head(segs)
  ELSE Head(segs) \o "/" \o JoinSegments(Tail(segs))

\* Absolute and relative paths of at most MaxSegments segments; "/", "/.",
\* "/.." and "//" are among them.
PathInputs ==
  {(IF abs THEN "/" ELSE "") \o JoinSegments(segs) :
     abs \in BOOLEAN, segs \in UNION {[1..n -> SegmentNames] : n \in 0..MaxSegments}}

PathInit ==
  /\ FuncTable = <<>>
  /\ BlockTable = <<>>
  /\ SiteTable = <<>>
  /\ InputFilenames = <<>>
  /\ addrOrder = "asc"
  /\ args = [file |-> FALSE, multi |-> FALSE, line |-> FALSE, func |-> FALSE, srcroot |-> FALSE]
  /\ pc = "path"
  /\ idx = 1
  /\ fidx = 1
  /\ Changed = FALSE
  /\ ret = FALSE
  /\ changed = 0
  /\ Modules = <<>>
  /\ Funcs = [k \in {} |-> None]
  /\ AddressTakenFuncs = {}
  /\ FuncPtrs = EmptyMap
  /\ Callees = EmptyMap
  /\ Callers = EmptyMap
  /\ IndirectCallInsts = <<>>
  /\ Sl = FreshSl
  /\ fullFunc = {}
  /\ lines = <<>>
  /\ cur = None
  /\ files = EmptyMap
  /\ callgraph_result = <<>>
  /\ exit = None
  /\ reruns = 0
  /\ inputPath \in PathInputs
  /\ normalized = ""
  /\ FormalTy = "void"
  /\ ActualTy = "void"
  /\ compatible = FALSE
  /\ callStack = <<>>
  /\ wpc = <<>>
  /\ outBuf = <<>>
  /\ bcFile = NoFile

\* normalizePath(pathStr) called on the input path.
NormalizePath ==
  /\ pc = "path"
  /\ normalized' = normalizePath(inputPath)
  /\ pc' = "normalized"
  /\ UNCHANGED <<inputs, frames, bitcode, types, inputPath, idx, fidx, Changed, ret, changed, Modules, Funcs,
                 AddressTakenFuncs, FuncPtrs, Callees, Callers, IndirectCallInsts, Sl,
                 fullFunc, lines, cur, files, callgraph_result, exit, reruns>>

\* normalizePath called on the path the first call returned.
NormalizeAgain ==
  /\ pc = "normalized"
  /\ inputPath' = normalized
  /\ normalized' = normalizePath(normalized)
  /\ pc' = "renormalized"
  /\ UNCHANGED <<inputs, frames, bitcode, types, idx, fidx, Changed, ret, changed, Modules, Funcs,
                 AddressTakenFuncs, FuncPtrs, Callees, Callers, IndirectCallInsts, Sl,
                 fullFunc, lines, cur, files, callgraph_result, exit, reruns>>

PathNext ==
  \/ NormalizePath
  \/ NormalizeAgain

PathSpec == PathInit /\ [][PathNext]_vars

\* ------------------------------------------------------------------------
\* The type comparison taken alone: isCompatibleType applied to a formal
\* parameter type and an actual argument type.
\* ------------------------------------------------------------------------

TypeInit ==
  /\ FuncTable = <<>>
  /\ BlockTable = <<>>
  /\ SiteTable = <<>>
  /\ InputFilenames = <<>>
  /\ addrOrder = "asc"
  /\ args = [file |-> FALSE, multi |-> FALSE, line |-> FALSE, func |-> FALSE, srcroot |-> FALSE]
  /\ pc = "types"
  /\ idx = 1
  /\ fidx = 1
  /\ Changed = FALSE
  /\ ret = FALSE
  /\ changed = 0
  /\ Modules = <<>>
  /\ Funcs = [k \in {} |-> None]
  /\ AddressTakenFuncs = {}
  /\ FuncPtrs = EmptyMap
  /\ Callees = EmptyMap
  /\ Callers = EmptyMap
  /\ IndirectCallInsts = <<>>
  /\ Sl = FreshSl
  /\ fullFunc = {}
  /\ lines = <<>>
  /\ cur = None
  /\ files = EmptyMap
  /\ callgraph_result = <<>>
  /\ exit = None
  /\ reruns = 0
  /\ inputPath = ""
  /\ normalized = ""
  /\ FormalTy \in Types
  /\ ActualTy \in Types
  /\ compatible = FALSE
  /\ callStack = <<>>
  /\ wpc = <<>>
  /\ outBuf = <<>>
  /\ bcFile = NoFile

\* findCalleesByType, line 176: isCompatibleType(FormalTy, ActualTy).
CompareTypes ==
  /\ pc = "types"
  /\ compatible' = isCompatibleType(FormalTy, ActualTy)
  /\ pc' = "compared"
  /\ UNCHANGED <<inputs, frames, bitcode, paths, FormalTy, ActualTy, idx, fidx, Changed, ret, changed,
                 Modules, Funcs, AddressTakenFuncs, FuncPtrs, Callees, Callers,
                 IndirectCallInsts, Sl, fullFunc, lines, cur, files, callgraph_result,
                 exit, reruns>>

TypeNext == CompareTypes

TypeSpec == TypeInit /\ [][TypeNext]_vars

\* ------------------------------------------------------------------------
\* Bitcode writer (writebc-pass.cc): compiler processes that call
\* writeModuleBitcodeToFile(M, path) for one path.  A step is one system
\* call or stream operation of one process.
\* ------------------------------------------------------------------------

\* Number of compiler processes, and of chunks of bitcode a module takes.
NumWriters == 2
ModuleChunks == 2

Writers == 1..NumWriters

\* The bytes after n chunks of process p are written at offset off; a write
\* past the end leaves a hole of zeros.
writeAt(bytes, off, n, p) ==
  [i \in 1..(IF off + n > Len(bytes) THEN off + n ELSE Len(bytes)) |->
     IF i > off /\ i <= off + n THEN p
     ELSE IF i <= Len(bytes) THEN bytes[i] ELSE 0]

WriterInit ==
  /\ FuncTable = <<>>
  /\ BlockTable = <<>>
  /\ SiteTable = <<>>
  /\ InputFilenames = <<>>
  /\ addrOrder = "asc"
  /\ args = [file |-> FALSE, multi |-> FALSE, line |-> FALSE, func |-> FALSE, srcroot |-> FALSE]
  /\ pc = "writers"
  /\ idx = 1
  /\ fidx = 1
  /\ Changed = FALSE
  /\ ret = FALSE
  /\ changed = 0
  /\ Modules = <<>>
  /\ Funcs = [k \in {} |-> None]
  /\ AddressTakenFuncs = {}
  /\ FuncPtrs = EmptyMap
  /\ Callees = EmptyMap
  /\ Callers = EmptyMap
  /\ IndirectCallInsts = <<>>
  /\ Sl = FreshSl
  /\ fullFunc = {}
  /\ lines = <<>>
  /\ cur = None
  /\ files = EmptyMap
  /\ callgraph_result = <<>>
  /\ exit = None
  /\ reruns = 0
  /\ inputPath = ""
  /\ normalized = ""
  /\ FormalTy = "void"
  /\ ActualTy = "void"
  /\ compatible = FALSE
  /\ callStack = <<>>
  /\ wpc = [p \in Writers |-> "exists"]
  /\ outBuf = [p \in Writers |-> 0]
  /\ bcFile = NoFile

\* What the writer processes neither read nor write.
writerRest ==
  <<inputs, frames, paths, types, reruns, callgraph_result, pc, idx, fidx, Changed, ret, changed,
    Modules, Funcs, AddressTakenFuncs, FuncPtrs, Callees, Callers, IndirectCallInsts, Sl,
    fullFunc, lines, cur, files, exit>>

\* writeModuleBitcodeToFile, lines 196-199: llvm::sys::fs::exists(path).
ExistsCheck(p) ==
  /\ wpc[p] = "exists"
  /\ wpc' = [wpc EXCEPT ![p] = IF bcFile.exists THEN "returned" ELSE "lockFile"]
  /\ UNCHANGED <<writerRest, outBuf, bcFile>>

\* lockFile, line 23: open(path, O_RDWR | O_CREAT, 0644).
OpenOrCreate(p) ==
  /\ wpc[p] = "lockFile"
  /\ bcFile' = [bcFile EXCEPT !.exists = TRUE]
  /\ wpc' = [wpc EXCEPT ![p] = "fcntl"]
  /\ UNCHANGED <<writerRest, outBuf>>

\* lockFile, lines 35-41: fcntl(fd, F_SETLK, F_WRLCK) does not wait: it fails
\* while another process holds the lock, and writeModuleBitcodeToFile then
\* returns (lines 210-212).
SetLock(p) ==
  /\ wpc[p] = "fcntl"
  /\ IF bcFile.lock \notin {0, p}
     THEN wpc' = [wpc EXCEPT ![p] = "returned"] /\ bcFile' = bcFile
     ELSE wpc' = [wpc EXCEPT ![p] = "stream"] /\ bcFile' = [bcFile EXCEPT !.lock = p]
  /\ UNCHANGED <<writerRest, outBuf>>

\* writeModuleBitcodeToFile, line 203: raw_fd_ostream out(path, EC, OF_None)
\* opens path a second time and truncates it.
OpenStream(p) ==
  /\ wpc[p] = "stream"
  /\ bcFile' = [bcFile EXCEPT !.bytes = <<>>]
  /\ wpc' = [wpc EXCEPT ![p] = "write"]
  /\ UNCHANGED <<writerRest, outBuf>>

\* writeModuleBitcodeToFile, line 208: WriteBitcodeToFile(M, out).  out is a
\* buffered stream: k of the module's chunks reach the file here, the rest
\* stays in out's buffer until out is flushed.
WriteBitcodeToFile(p) ==
  /\ wpc[p] = "write"
  /\ \E k \in 0..ModuleChunks :
       /\ bcFile' = [bcFile EXCEPT !.bytes = writeAt(@, 0, k, p),
                                   !.completed = IF k = ModuleChunks THEN @ \cup {p} ELSE @]
       /\ outBuf' = [outBuf EXCEPT ![p] = ModuleChunks - k]
  /\ wpc' = [wpc EXCEPT ![p] = "unlock"]
  /\ UNCHANGED writerRest

\* writeModuleBitcodeToFile, line 209: unlockFile(fd) closes fd, which
\* releases the process's lock on the file.
UnlockFile(p) ==
  /\ wpc[p] = "unlock"
  /\ bcFile' = [bcFile EXCEPT !.lock = IF @ = p THEN 0 ELSE @]
  /\ wpc' = [wpc EXCEPT ![p] = "destroy"]
  /\ UNCHANGED <<writerRest, outBuf>>

\* writeModuleBitcodeToFile, line 210: the block that declares out ends, and
\* out's destructor writes what out still buffers, at out's own offset.
DestroyStream(p) ==
  /\ wpc[p] = "destroy"
  /\ bcFile' = [bcFile EXCEPT !.bytes = writeAt(@, ModuleChunks - outBuf[p], outBuf[p], p),
                              !.completed = @ \cup {p}]
  /\ outBuf' = [outBuf EXCEPT ![p] = 0]
  /\ wpc' = [wpc EXCEPT ![p] = "returned"]
  /\ UNCHANGED writerRest

WriterNext ==
  \E p \in Writers :
    \/ ExistsCheck(p)
    \/ OpenOrCreate(p)
    \/ SetLock(p)
    \/ OpenStream(p)
    \/ WriteBitcodeToFile(p)
    \/ UnlockFile(p)
    \/ DestroyStream(p)

WriterSpec == WriterInit /\ [][WriterNext]_vars

\* ------------------------------------------------------------------------
\* The call-graph pass run more than once over the loaded modules.
\* ------------------------------------------------------------------------

MaxReruns == 1

\* IterativeModulePass::run entered again once it has returned: its loops
\* start over at the first module, on the GlobalContext the earlier run
\* left.
RunAgain ==
  /\ pc = "callers"
  /\ reruns < MaxReruns
  /\ reruns' = reruns + 1
  /\ pc' = "init"
  /\ UNCHANGED <<inputs, frames, bitcode, paths, types, callgraph_result, idx, fidx, Changed, ret, changed, Modules,
                 Funcs, AddressTakenFuncs, FuncPtrs, Callees, Callers, IndirectCallInsts, Sl,
                 fullFunc, lines, cur, files, exit>>

NextTwice ==
  \/ Next
  \/ RunAgain

SpecTwice == Init /\ [][NextTwice]_vars

\* ------------------------------------------------------------------------
\* The slicer call by call (Slicing.cc, lines 130-230 and 284-335): main's
\* calls of sliceFunction, backtracking and forwardSlicingFunction taken one
\* loop iteration, call and return at a time.  callStack holds the calls in
\* progress with their local queues and stacks.
\* ------------------------------------------------------------------------

\* The variables the slicer neither reads for writing nor writes.
slicerRest ==
  <<inputs, bitcode, paths, types, reruns, callgraph_result, idx, fidx, Changed, ret, changed, Modules,
    Funcs, AddressTakenFuncs, FuncPtrs, Callees, IndirectCallInsts, fullFunc, lines, cur,
    files, exit>>

\* sliceFunction(F) on entry; toProcess is filled once the guard is passed.
SliceFrame(F) == [fn |-> "sliceFunction", F |-> F, at |-> "entry", toProcess |-> <<>>]

\* backtracking(BB) with toVisit.push(BB) done.
BackFrame(BB) == [fn |-> "backtracking", BB |-> BB, toVisit |-> <<BB>>]

\* forwardSlicingFunction(F) with F's blocks pushed; F = None is a stub whose
\* function is not found.  stubs are the names main passes to
\* forwardSlicingFunctionStub afterwards.
ForwardFrame(F, stubs) ==
  [fn |-> "forwardSlicingFunction", visited |-> {},
   toVisit |-> IF F = None THEN <<>> ELSE FuncTable[F].blocks, stubs |-> stubs]

FuzzStubs == <<"LLVMFuzzerInitialize", "LLVMFuzzerTestOneInput", "LLVMFuzzerRunDriver">>

topFrame == callStack[Len(callStack)]
popFrame == SubSeq(callStack, 1, Len(callStack) - 1)
replaceTop(f) == Append(popFrame, f)

\* main, lines 327 and 373: the call Sl.sliceFunction(targetFunc).
CallSliceFunction ==
  /\ pc = "slice"
  /\ callStack' = <<SliceFrame(cur)>>
  /\ pc' = "slicing"
  /\ UNCHANGED <<slicerRest, Sl, Callers>>

\* main, lines 345-352: findTargetByLine and the call Sl.backtracking(targetBB).
CallBacktracking ==
  /\ pc = "line"
  /\ \E fileName \in TargetFiles, line \in TargetLines,
        func \in (IF args.func THEN TargetNames ELSE {""}) :
       LET targetBB == findTargetByLine(fileName, line)
       IN  /\ cur' = targetBB
           /\ lines' = IF args.func THEN <<func>> ELSE <<>>
           /\ IF targetBB = None
              THEN pc' = "done" /\ exit' = "-1" /\ callStack' = callStack
              ELSE pc' = "slicing" /\ exit' = exit /\ callStack' = <<BackFrame(targetBB)>>
  /\ UNCHANGED <<inputs, bitcode, paths, types, reruns, callgraph_result, idx, fidx, Changed, ret,
                 changed, Modules, Funcs, AddressTakenFuncs, FuncPtrs, Callees, Callers,
                 IndirectCallInsts, Sl, fullFunc, files>>

\* A sliceFunction entry without the visitedF_ test.
SliceFunctionEnterUnguarded ==
  /\ pc = "slicing" /\ callStack # <<>>
  /\ topFrame.fn = "sliceFunction" /\ topFrame.at = "entry"
  /\ LET F == topFrame.F
         st1 == [WithCallers(Sl, Callers) EXCEPT !.visitedF = @ \cup {F},
                                                !.visitedBB = @ \cup BlocksOf(F)]
         st2 == addToVerbose(st1, F)
     IN  /\ Sl' = SlOf(st2) /\ Callers' = st2.Callers
         /\ callStack' = replaceTop([topFrame EXCEPT !.at = "loop",
                                                     !.toProcess = toProcessOf(st2, F)])
  /\ UNCHANGED <<slicerRest, pc>>

\* sliceFunction, lines 132-171: the visitedF_ guard, the blocks of F, then
\* addToVerbose and the queue of the callers' blocks.
SliceFunctionEnter ==
  /\ pc = "slicing" /\ callStack # <<>>
  /\ topFrame.fn = "sliceFunction" /\ topFrame.at = "entry"
  /\ LET F == topFrame.F
         st1 == [WithCallers(Sl, Callers) EXCEPT !.visitedF = @ \cup {F},
                                                !.visitedBB = @ \cup BlocksOf(F)]
         st2 == addToVerbose(st1, F)
     IN  IF F \in Sl.visitedF
         THEN callStack' = popFrame /\ UNCHANGED <<Sl, Callers>>
         ELSE /\ Sl' = SlOf(st2) /\ Callers' = st2.Callers
              /\ callStack' = replaceTop([topFrame EXCEPT !.at = "loop",
                                                          !.toProcess = toProcessOf(st2, F)])
  /\ UNCHANGED <<slicerRest, pc>>

\* sliceFunction, lines 174-178: one iteration of the loop over toProcess.
SliceFunctionLoop ==
  /\ pc = "slicing" /\ callStack # <<>>
  /\ topFrame.fn = "sliceFunction" /\ topFrame.at = "loop" /\ topFrame.toProcess # <<>>
  /\ callStack' = Append(replaceTop([topFrame EXCEPT !.toProcess = Tail(@)]),
                         BackFrame(Head(topFrame.toProcess)))
  /\ UNCHANGED <<slicerRest, pc, Sl, Callers>>

\* sliceFunction, lines 181-187: the counter, and the return.
SliceFunctionReturn ==
  /\ pc = "slicing" /\ callStack # <<>>
  /\ topFrame.fn = "sliceFunction" /\ topFrame.at = "loop" /\ topFrame.toProcess = <<>>
  /\ Sl' = IF HasCallers(WithCallers(Sl, Callers), topFrame.F)
           THEN [Sl EXCEPT !.slicedFuncCnt = @ + 1]
           ELSE Sl
  /\ callStack' = popFrame
  /\ UNCHANGED <<slicerRest, pc, Callers>>

\* backtracking, lines 198-224: one iteration of the loop over toVisit.
BacktrackingVisit ==
  /\ pc = "slicing" /\ callStack # <<>>
  /\ topFrame.fn = "backtracking" /\ topFrame.toVisit # <<>>
  /\ LET current == topFrame.toVisit[Len(topFrame.toVisit)]
         rest == SubSeq(topFrame.toVisit, 1, Len(topFrame.toVisit) - 1)
         now == Sl.visitedBB \cup {current}
     IN  IF current \in Sl.visitedBB
         THEN /\ callStack' = replaceTop([topFrame EXCEPT !.toVisit = rest])
              /\ Sl' = Sl
         ELSE /\ callStack' =
                   replaceTop([topFrame EXCEPT !.toVisit =
                     rest \o SelectSeq(predScan(BlockTable[current].preds, None),
                                       LAMBDA p : p \notin now)])
              /\ Sl' = [Sl EXCEPT !.visitedBB = now]
  /\ UNCHANGED <<slicerRest, pc, Callers>>

\* A backtracking that returns after its loop, without slicing the block's
\* function.
BacktrackingReturnsAfterLoop ==
  /\ pc = "slicing" /\ callStack # <<>>
  /\ topFrame.fn = "backtracking" /\ topFrame.toVisit = <<>>
  /\ callStack' = popFrame
  /\ UNCHANGED <<slicerRest, pc, Sl, Callers>>

\* backtracking, lines 227-228: sliceFunction(BB->getParent()) as the last
\* thing backtracking does.
BacktrackingSliceParent ==
  /\ pc = "slicing" /\ callStack # <<>>
  /\ topFrame.fn = "backtracking" /\ topFrame.toVisit = <<>>
  /\ callStack' = replaceTop(SliceFrame(BlockTable[topFrame.BB].fn))
  /\ UNCHANGED <<slicerRest, pc, Sl, Callers>>

\* main: the outermost call of the backward slice has returned.
SliceReturned ==
  /\ pc = "slicing" /\ callStack = <<>>
  /\ pc' = IF mode = "line" THEN "dump" ELSE "forward"
  /\ UNCHANGED <<slicerRest, frames, Sl, Callers>>

\* main, lines 330 and 376: the call Sl.forwardSlicingFunction(targetFunc).
CallForward ==
  /\ pc = "forward"
  /\ callStack' = <<ForwardFrame(cur, FuzzStubs)>>
  /\ pc' = "forwarding"
  /\ UNCHANGED <<slicerRest, Sl, Callers>>

\* forwardSlicingFunction, lines 295-323: one iteration of the loop over
\* toVisit.
ForwardVisit ==
  /\ pc = "forwarding" /\ topFrame.toVisit # <<>>
  /\ LET current == Head(topFrame.toVisit)
         new == newCallees(Sl.fVisitedF, CalleeSeq(current))
     IN  IF current \in topFrame.visited
         THEN /\ Sl' = [Sl EXCEPT !.verboseBB = @ \cup {current}]
              /\ callStack' = replaceTop([topFrame EXCEPT !.toVisit = Tail(@)])
         ELSE /\ Sl' = [Sl EXCEPT !.verboseBB = @ \cup {current},
                                  !.fVisitedF = @ \cup {new[i] : i \in 1..Len(new)}]
              /\ callStack' =
                   replaceTop([topFrame EXCEPT
                     !.visited = @ \cup {current},
                     !.toVisit = Tail(@) \o
                       ConcatAll([i \in 1..Len(new) |-> FuncTable[new[i]].blocks])])
  /\ UNCHANGED <<slicerRest, pc, Callers>>

\* forwardSlicingFunction returns; main, lines 331-333 and 377-379, goes on
\* with the next forwardSlicingFunctionStub, or is done with the query.
ForwardReturn ==
  /\ pc = "forwarding" /\ topFrame.toVisit = <<>>
  /\ IF topFrame.stubs = <<>>
     THEN /\ callStack' = <<>>
          /\ pc' = IF mode = "multi" THEN "multi" ELSE "dump"
     ELSE /\ callStack' = <<ForwardFrame(getFunctionByName(Head(topFrame.stubs)),
                                         Tail(topFrame.stubs))>>
          /\ pc' = pc
  /\ UNCHANGED <<slicerRest, Sl, Callers>>

\* A step of the slicer.
SlicerStep ==
  \/ CallSliceFunction
  \/ CallBacktracking
  \/ SliceFunctionEnter
  \/ SliceFunctionLoop
  \/ SliceFunctionReturn
  \/ BacktrackingVisit
  \/ BacktrackingSliceParent
  \/ SliceReturned
  \/ CallForward
  \/ ForwardVisit
  \/ ForwardReturn

StepNext ==
  \/ ValidateArguments
  \/ LoadModule
  \/ DoInitialization
  \/ RunOnFunction
  \/ DoFinalization
  \/ DumpCallers
  \/ CacheAllLLVMObjects
  \/ MultiRead
  \/ MultiEOF
  \/ SingleFunc
  \/ SlicerStep
  \/ Dump

\* The steps of the slicer that take one element off a queue or a stack, or
\* make or end a call.
LightStep ==
  \/ CallSliceFunction
  \/ SliceFunctionLoop
  \/ SliceFunctionReturn
  \/ BacktrackingVisit
  \/ BacktrackingSliceParent
  \/ SliceReturned
  \/ CallForward
  \/ ForwardReturn

\* The steps that search the tables: findTargetByLine, addToVerbose and the
\* callers' blocks, the callees of a block.
HeavyStep == CallBacktracking \/ SliceFunctionEnter \/ ForwardVisit

\* The guards of the three actions of HeavyStep.  Each of them is its guard
\* followed by assignments that change pc or callStack, so HeavyBusy is
\* ENABLED <<HeavyStep>>_vars.
HeavyBusy ==
  \/ pc = "line"
  \/ pc = "slicing" /\ callStack # <<>>
       /\ topFrame.fn = "sliceFunction" /\ topFrame.at = "entry"
  \/ pc = "forwarding" /\ topFrame.toVisit # <<>>

\* main is one sequential thread: a call it has reached is made, and a call
\* in progress takes its next step.  The second conjunct is
\* WF_vars(HeavyStep) with HeavyBusy written for ENABLED <<HeavyStep>>_vars.
SlicerFair ==
  /\ WF_vars(LightStep)
  /\ []<>(~HeavyBusy) \/ []<><<HeavyStep>>_vars

StepSpec == Init /\ [][StepNext]_vars /\ SlicerFair

\* ------------------------------------------------------------------------
\* Properties
\* ------------------------------------------------------------------------

\* The modules main has loaded.
Loaded == {Modules[i] : i \in 1..Len(Modules)}

\* Program points: the module passes are over / run() has returned.
AfterPass == pc \notin {"load", "init", "pass"}
AfterRun == pc \notin {"load", "init", "pass", "final"}

\* The indirect call sites the pass analyses: calls through a value, not
\* inline asm, in a loaded function outside .init.text.
IndirectSites ==
  {S \in SiteIds : /\ FuncTable[SiteTable[S].fn].mod \in Loaded
                   /\ ~InInitText(SiteTable[S].fn)
                   /\ getCalledFunction(S) = None /\ ~SiteTable[S].asm}

\* The admission rule as the specification words it.
SpecAdmits(F, S) ==
  /\ F \in AddressTakenFuncs
  /\ ~FuncTable[F].intrinsic
  /\ FuncTable[F].vararg \/ Len(FuncTable[F].params) = Len(SiteTable[S].args)
  /\ isCompatibleType(FuncTable[F].ret, SiteTable[S].ret)
  /\ \A i \in 1..Len(FuncTable[F].params) :
        i <= Len(SiteTable[S].args)
          => isCompatibleType(FuncTable[F].params[i], SiteTable[S].args[i])

\* C1: after the call-graph pass, a function F is in Callees[S] of an
\* indirect call site S exactly when F is address-taken, not an intrinsic,
\* variadic or of S's arity, of a return type compatible with S's result
\* type, and of formals compatible with S's actuals.
C1_IndirectCalleesBySignature ==
  AfterPass =>
    \A S \in IndirectSites : \A F \in FuncIds :
       FuncTable[F].mod \in Loaded => (F \in Get(Callees, S) <=> SpecAdmits(F, S))

\* C1, the case reached: a variadic address-taken function sits in the
\* callee set of an indirect site whose result type its return type does
\* not match.
C1_VariadicAdmitted ==
  /\ AfterPass
  /\ \E S \in IndirectSites : \E F \in Get(Callees, S) :
        FuncTable[F].vararg /\ ~isCompatibleType(FuncTable[F].ret, SiteTable[S].ret)

\* C2: once run() has returned, Callers is the inverse of Callees: a call
\* site s is in Callers[f] exactly when f is in Callees[s].
C2_CallersInverseOfCallees ==
  AfterRun =>
    \A s \in SiteIds : \A f \in FuncIds : s \in Get(Callers, f) <=> f \in Get(Callees, s)

\* C2, the case reached: both modules are finalized, and an indirect site
\* with several callees is recorded as a caller of each of them.
C2_InvertedIndirectSite ==
  /\ AfterRun
  /\ Len(Modules) = 2
  /\ \E s \in IndirectSites :
        /\ Cardinality(Get(Callees, s)) > 1
        /\ \A f \in Get(Callees, s) : s \in Get(Callers, f)

\* The call sites recorded as callers of a function of F's name.
CallersByName(F) ==
  UNION {Callers[G] : G \in {H \in DOMAIN Callers : FuncTable[H].name = FuncTable[F].name}}

\* The functions from which one of fs is reachable through caller edges.
RECURSIVE Ancestors(_)
Ancestors(fs) ==
  LET nxt == fs \cup {SiteTable[c].fn : c \in UNION {CallersByName(F) : F \in fs}}
  IN  IF nxt = fs THEN fs ELSE Ancestors(nxt)

\* The function whose backward slice the current query asked for.
SlicedTarget == IF mode = "line" THEN BlockTable[cur].fn ELSE cur

\* C3: once sliceFunction(T) has returned, every function from which T is
\* reachable through caller edges is in visitedF and the block of every
\* call site on such a chain is in visitedBB; this holds for every function
\* sliced so far, whatever was visited before.
C3_BackwardSliceClosed ==
  /\ (pc = "forward" \/ (pc = "dump" /\ mode = "line")) => SlicedTarget \in Sl.visitedF
  /\ \A T \in Sl.visitedF :
        /\ Ancestors({T}) \subseteq Sl.visitedF
        /\ \A G \in Ancestors({T}) : \A c \in CallersByName(G) :
              SiteTable[c].bb \in Sl.visitedBB

\* C3, the case reached: the second target of a batch has been sliced, it
\* has callers three functions up, and one of its callers' blocks was
\* already visited when the first target was sliced.
C3_SecondTargetSliced ==
  /\ pc = "forward" /\ mode = "multi" /\ Len(lines) = 2
  /\ lines[1] # lines[2]
  /\ findTargetByFunctionName(lines[1]) # None
  /\ Cardinality(Ancestors({cur})) >= 3
  /\ \E c \in CallersByName(cur) :
        SiteTable[c].fn \in Ancestors({findTargetByFunctionName(lines[1])})

\* Some loaded module defines the symbol of f: a function with a body and
\* f's name, of external linkage.
DefinedSomewhere(f) ==
  \E g \in FuncIds :
     /\ FuncTable[g].mod \in Loaded
     /\ FuncTable[g].blocks # <<>>
     /\ FuncTable[g].linkage = "external"
     /\ FuncTable[g].name = FuncTable[f].name

\* C4: after the call-graph pass every function held in a Callees set, of
\* a direct or of an indirect call site, is a definition whenever a loaded
\* module defines its symbol; a declaration is held only when none does.
C4_CalleesAreDefinitions ==
  AfterPass =>
    \A s \in DOMAIN Callees : \A f \in Callees[s] :
       FuncTable[f].blocks = <<>> => ~DefinedSomewhere(f)

\* C4, the case reached: an indirect site holds a declaration whose address
\* is taken in the module that declares it, while another loaded module
\* defines it.
C4_DeclarationHeld ==
  /\ AfterPass
  /\ \E s \in IndirectSites : \E f \in Get(Callees, s) :
        /\ FuncTable[f].blocks = <<>> /\ FuncTable[f].addrTaken
        /\ DefinedSomewhere(f)

\* The direct calls of non-intrinsic functions in the loaded modules.
DirectSites ==
  {s \in SiteIds : /\ FuncTable[SiteTable[s].fn].mod \in Loaded
                   /\ getCalledFunction(s) # None
                   /\ ~FuncTable[getCalledFunction(s)].intrinsic}

\* The Funcs entry registered under f's scope name when there is one, else f.
DefinitionOf(f) ==
  LET key == IF FuncTable[f].linkage = "external" THEN FuncTable[f].name
             ELSE "_" \o ModuleTable[FuncTable[f].mod].stem \o "." \o FuncTable[f].name
  IN  IF key \in DOMAIN Funcs THEN Funcs[key] ELSE f

\* C5 as stated: after the call-graph pass, Callees[s] of every direct call
\* site s of a non-intrinsic function f contains the definition of f.
C5_EveryDirectSiteResolved ==
  AfterPass => \A s \in DirectSites : DefinitionOf(getCalledFunction(s)) \in Get(Callees, s)

\* C5, amended: after the call-graph pass, Callees[s] of every direct call
\* site s of a non-intrinsic function f, s located in a function whose
\* section is not .init.text, contains the definition of f, for every load
\* order and whichever module defines f.
C5_DirectSiteOutsideInitResolved ==
  AfterPass =>
    \A s \in DirectSites :
       ~InInitText(SiteTable[s].fn) => DefinitionOf(getCalledFunction(s)) \in Get(Callees, s)

\* C5, the case reached: a direct call names a declaration and its callee
\* set holds the definition another module supplies.
C5_ResolvedAcrossModules ==
  /\ AfterPass
  /\ \E s \in DirectSites :
        /\ ~InInitText(SiteTable[s].fn)
        /\ FuncTable[getCalledFunction(s)].blocks = <<>>
        /\ \E g \in Get(Callees, s) :
              /\ FuncTable[g].blocks # <<>>
              /\ FuncTable[g].mod # FuncTable[getCalledFunction(s)].mod

\* The functions in section .init.text and their call sites.
InitTextFuncs == {F \in FuncIds : InInitText(F)}
InitTextSites == {c \in SiteIds : InInitText(SiteTable[c].fn)}

\* The emitted files that list the slice (all but the blacklist).
SliceFiles == {k \in DOMAIN files : ~Contains(k, ".blacklist")}

\* C6: a function in section .init.text never appears in the call graph or
\* in the slice: it is in no Callees set, has no callers recorded, none of
\* its call sites is a key of Callees or a member of a Callers set, and
\* none of its blocks, block lines or its name reaches visitedBB,
\* verboseBB or the emitted slice files.
C6_InitTextExcluded ==
  \A F \in InitTextFuncs :
     /\ \A s \in DOMAIN Callees : F \notin Callees[s]
     /\ Get(Callers, F) = {}
     /\ \A c \in InitTextSites :
           c \notin DOMAIN Callees /\ \A G \in DOMAIN Callers : c \notin Callers[G]
     /\ BlocksOf(F) \cap (Sl.visitedBB \cup Sl.verboseBB) = {}
     /\ \A k \in SliceFiles :
           FuncTable[F].name \notin files[k] /\ \A b \in BlocksOf(F) : BlockLine(b) \notin files[k]

\* C6, the case reached: run() has returned and a direct call in a function
\* outside .init.text has a .init.text function as its callee and is
\* recorded as that function's caller.
C6_InitTextCalleeRecorded ==
  /\ AfterRun
  /\ \E s \in DirectSites \ InitTextSites : \E F \in InitTextFuncs :
        F \in Get(Callees, s) /\ s \in Get(Callers, F)

\* A dump has written its five files.
Dumped == pc = "done" /\ exit = "0"

\* The set written to the file of the given suffix.
Written(suffix) == files[DumpLabel \o suffix]

\* The names of the loaded functions without a body.
DeclaredNames ==
  {FuncTable[F].name : F \in {G \in FuncIds : FuncTable[G].mod \in Loaded /\ FuncTable[G].blocks = <<>>}}

\* C7: for every dump the verbose outputs contain the non-verbose ones:
\* every line of .func is a line of .func.verbose and every line of .slice
\* is a line of .slice.verbose.
C7_VerboseSuperset ==
  Dumped =>
    /\ Written(".func") \subseteq Written(".func.verbose")
    /\ Written(".slice") \subseteq Written(".slice.verbose")

\* C7, the case reached: a dump whose .func names a function without a
\* body that .func.verbose does not name.
C7_DeclarationOnlyInFunc ==
  /\ Dumped
  /\ \E n \in Written(".func") \cap DeclaredNames : n \notin Written(".func.verbose")

\* C8: no function name written to .func.blacklist is also written to
\* .func or to .func.verbose by the same dump.
C8_BlacklistOutsideSlice ==
  Dumped =>
    Written(".func.blacklist") \cap (Written(".func") \cup Written(".func.verbose")) = {}

\* C8, the case reached: a dump that writes one name both to .func and to
\* .func.blacklist.
C8_BlacklistedNameInFunc ==
  Dumped /\ Written(".func.blacklist") \cap Written(".func") # {}

\* C9: for every dump, every name in .func.blacklist and every name in
\* .func.verbose is a member of fullFunc, the set cacheAllLLVMObjects built.
C9_OutputsWithinFullFunc ==
  Dumped => (Written(".func.blacklist") \cup Written(".func.verbose")) \subseteq fullFunc

\* C9, the case reached: a dump whose .func.verbose names a function,
\* with a block in the slice, that carries no debug subprogram.
C9_SlicedWithoutSubprogram ==
  /\ Dumped
  /\ \E b \in Sl.visitedBB \cup Sl.verboseBB :
        /\ ~FuncTable[BlockTable[b].fn].sp
        /\ FuncTable[BlockTable[b].fn].name \in Written(".func.verbose") \ fullFunc

\* The targets of the pairs read from the --multi file that were found.
FoundTargets == {findTargetByFunctionName(lines[i]) : i \in 1..Len(lines)} \ {None}

\* What a dump writes when T alone is sliced from a fresh slicer state.
SlicedAlone(T) ==
  dumpFiles(forwardQuery(sliceFunction(WithCallers(FreshSl, Callers), T), T), fullFunc)

\* C10: in batch mode each of the sets written under "merged" (.slice,
\* .slice.verbose, .func, .func.verbose) is the union, over the found
\* targets, of the set the same target produces when sliced alone from a
\* fresh slicer state, for any order of the pairs.
C10_MergedIsUnionOfTargets ==
  (Dumped /\ mode = "multi") =>
    /\ Written(".slice") = UNION {SlicedAlone(T).slice : T \in FoundTargets}
    /\ Written(".slice.verbose") = UNION {SlicedAlone(T).sliceVerbose : T \in FoundTargets}
    /\ Written(".func") = UNION {SlicedAlone(T).func : T \in FoundTargets}
    /\ Written(".func.verbose") = UNION {SlicedAlone(T).funcVerbose : T \in FoundTargets}

\* C10, the case reached: a batch of two different found targets whose
\* merged .func lacks a name that one of them yields when sliced alone.
C10_MergedLacksName ==
  /\ Dumped /\ mode = "multi"
  /\ Cardinality(FoundTargets) = 2
  /\ \E T \in FoundTargets : SlicedAlone(T).func \ Written(".func") # {}

\* C11: in multi-target mode the slicer's per-query state is cleared between
\* queries: whenever the slicing of a found pair starts, visitedF, verboseF,
\* visitedBB, fVisitedF, verboseBB and slicedFuncCnt are those of a freshly
\* constructed slicer.
C11_StateClearedBetweenQueries ==
  (mode = "multi" /\ pc = "slice") => Sl = clear(Sl)

\* C11, the case reached: the slicing of the second pair of a batch starts
\* with the sets the first pair left behind.
C11_SecondQueryStartsDirty ==
  /\ mode = "multi" /\ pc = "slice" /\ Len(lines) = 2
  /\ findTargetByFunctionName(lines[1]) # None
  /\ Sl.visitedF # {} /\ Sl.verboseBB # {} /\ Sl.slicedFuncCnt > 1

\* C12: integer parameters of different width do not match: after the
\* call-graph pass no function with an integer formal whose width differs
\* from the width of the integer actual at its position is in Callees[S] of
\* an indirect call site S; `int mul_disguise(long, long)` is not a callee
\* of a site called with two ints.
C12_IntegerWidthsMatch ==
  AfterPass =>
    \A S \in IndirectSites : \A F \in Get(Callees, S) :
       \A i \in 1..Len(FuncTable[F].params) :
          (/\ i <= Len(SiteTable[S].args)
           /\ TypeTable[FuncTable[F].params[i]].kind = "int"
           /\ TypeTable[SiteTable[S].args[i]].kind = "int")
            => TypeTable[FuncTable[F].params[i]].width = TypeTable[SiteTable[S].args[i]].width

\* C12, the case reached: the callee set of a site of result type i32 called
\* with two i32 arguments holds add and also mul_disguise, whose formals
\* are i64.
C12_WiderFormalsAdmitted ==
  /\ AfterPass
  /\ \E S \in IndirectSites :
        /\ SiteTable[S].ret = "i32" /\ SiteTable[S].args = <<"i32", "i32">>
        /\ \E F, G \in Get(Callees, S) :
              /\ FuncTable[F].name = "add" /\ FuncTable[F].params = <<"i32", "i32">>
              /\ FuncTable[G].name = "mul_disguise" /\ FuncTable[G].params = <<"i64", "i64">>

\* A line whose paths have no "." segment, no ".." segment and no empty
\* segment (a path ends at the ":" before its line number).
PathsNormalized(l) ==
  /\ ~Contains(l, "/./") /\ ~Contains(l, "/../") /\ ~Contains(l, "//")
  /\ ~Contains(l, "/.:") /\ ~Contains(l, "/..:") /\ ~Contains(l, "/:")
  /\ ~Contains(l, ":./") /\ ~Contains(l, ":../")
  /\ ~StartsWith(l, "./") /\ ~StartsWith(l, "../")

\* C13: every location path written to a slice file or to callgraph_result
\* is normalized: it has no "." segment, no ".." segment and no empty
\* segment, whatever the debug directory and the debug filename are.
C13_EmittedPathsNormalized ==
  /\ Dumped => \A l \in Written(".slice") \cup Written(".slice.verbose") : PathsNormalized(l)
  /\ callgraph_result # <<>> =>
       \A i \in 1..Len(callgraph_result) : PathsNormalized(callgraph_result[i])

\* C13, the case reached: a slice file and callgraph_result both hold a
\* location of a module whose debug directory contains "." and "..".
C13_RawDirectoryEmitted ==
  /\ Dumped
  /\ \E l \in Written(".slice") : Contains(l, "/src/./x/../")
  /\ \E i \in 1..Len(callgraph_result) : Contains(callgraph_result[i], "/src/./x/../")

EndsWith(s, suffix) ==
  Len(s) >= Len(suffix) /\ SubSeq(s, Len(s) - Len(suffix) + 1, Len(s)) = suffix

\* C14: normalizePath(p) begins with "/" if and only if p begins with "/",
\* and never ends with "/"; this includes "/", "/.", "/.." and "//".
C14_SlashPreserved ==
  pc = "normalized" =>
    /\ StartsWith(normalized, "/") <=> StartsWith(inputPath, "/")
    /\ ~EndsWith(normalized, "/")

\* C14, the case reached: the root path has been normalized to the empty
\* string.
C14_RootBecomesEmpty ==
  pc = "normalized" /\ inputPath \in {"/", "/.", "/..", "//"} /\ normalized = ""

\* A path with no "." segment, no ".." segment and no empty segment between
\* or after its separators.
NoDotOrEmptySegment(p) ==
  /\ ~Contains(p, "//") /\ ~Contains(p, "/./") /\ ~Contains(p, "/../")
  /\ ~EndsWith(p, "/.") /\ ~EndsWith(p, "/..")
  /\ ~StartsWith(p, "./") /\ ~StartsWith(p, "../")
  /\ p \notin {".", ".."}
  /\ ~(Len(p) > 1 /\ EndsWith(p, "/"))

\* C15: normalizePath is idempotent on every path built from names, ".",
\* ".." and empty segments, absolute or relative: applied to its own result
\* it returns that result; and the result has no ".", ".." or empty segment.
C15_NormalizeIdempotent ==
  /\ pc = "normalized" =>
       /\ NoDotOrEmptySegment(normalized)
       /\ inputPath = "a//b" => normalized = "a/b"
       /\ inputPath = "/a/../b" => normalized = "/b"
  /\ pc = "renormalized" => normalized = inputPath /\ NoDotOrEmptySegment(normalized)

\* C15, the case reached: a path with ".", ".." and an empty segment was
\* normalized to a shorter path, and normalizing that path again is done.
C15_NormalizedTwice ==
  pc = "renormalized" /\ inputPath = "/a/b" /\ normalized = "/a/b"

\* C16: <target>.slice.verbose holds the contributions of verboseBB: for
\* every block of verboseBB that has an instruction with a debug location
\* of non-zero line, the file holds the block: line of the first such
\* instruction, in addition to all the lines of <target>.slice.
C16_VerboseBlocksWritten ==
  Dumped =>
    /\ \A b \in Sl.verboseBB :
         BlockLine(b) # None => BlockLine(b) \in Written(".slice.verbose")
    /\ Written(".slice") \subseteq Written(".slice.verbose")

\* C16, the case reached: a dump with a located block in verboseBB that is
\* not in visitedBB, while .slice.verbose holds the same lines as .slice.
C16_VerboseBlockMissing ==
  /\ Dumped
  /\ \E b \in Sl.verboseBB \ Sl.visitedBB :
       BlockLine(b) # None /\ BlockLine(b) \notin Written(".slice.verbose")
  /\ Written(".slice.verbose") = Written(".slice")

\* The invocations the statement of C17 accepts: exactly one of --file and
\* --multi, exactly one of --line, --func and --multi, and --srcroot.
ExactlyOne(S) == Cardinality({b \in S : b[2]}) = 1
WellFormedArguments ==
  /\ ExactlyOne({<<"file", args.file>>, <<"multi", args.multi>>})
  /\ ExactlyOne({<<"line", args.line>>, <<"func", args.func>>, <<"multi", args.multi>>})
  /\ args.srcroot

\* C17: an invocation is accepted only if exactly one of --file and --multi,
\* exactly one of --line, --func and --multi, and --srcroot are given; every
\* other combination exits with -1 before any module is loaded.
C17_OnlyWellFormedAccepted ==
  ~WellFormedArguments => (Modules = <<>> /\ (pc # "args" => (pc = "done" /\ exit = "-1")))

\* C17, the case reached: an invocation with both --file and --multi, and
\* both --line and --func, has loaded its modules.
C17_BothFileAndMultiLoaded ==
  /\ args.file /\ args.multi /\ args.line /\ args.func /\ args.srcroot
  /\ Modules # <<>>

\* The step of the batch loop that reads a pair whose function the locator
\* does not find.
PairNotFound ==
  /\ pc = "multi" /\ Len(lines') = Len(lines) + 1
  /\ findTargetByFunctionName(lines'[Len(lines')]) = None

\* C18: a target that is not found, in single-target mode, ends the run
\* with -1 and no slice file written; in batch mode the pair leaves the
\* slicer state unchanged, the pairs after it are still sliced and the
\* merged output is still written.
C18_NotFoundHandled ==
  /\ []((mode # "multi" /\ pc = "done" /\ ValidArguments(args) /\ cur = None)
         => (exit = "-1" /\ DOMAIN files = {}))
  /\ []((mode # "multi" /\ DOMAIN files # {}) => cur # None)
  /\ [][PairNotFound => (Sl' = Sl /\ pc' = "multi" /\ exit' = None /\ files' = files)]_vars
  /\ []((mode = "multi" /\ pc \in {"multi", "dump", "done"} /\ ValidArguments(args))
         => FoundTargets \subseteq Sl.visitedF)
  /\ []((mode = "multi" /\ pc = "done" /\ ValidArguments(args))
         => (exit = "0" /\ DumpLabel = "merged"
             /\ {"merged.slice", "merged.func"} \subseteq DOMAIN files))

\* C18, the batch case reached: the first pair was not found, the second
\* was sliced, and the merged files hold its slice.
C18_LaterPairSliced ==
  /\ Dumped /\ mode = "multi" /\ Len(lines) = 2
  /\ findTargetByFunctionName(lines[1]) = None
  /\ findTargetByFunctionName(lines[2]) # None
  /\ FuncTable[findTargetByFunctionName(lines[2])].name \in Written(".func")
  /\ Written(".slice") # {}

\* C19: a second run of the call-graph pass over the same loaded modules
\* leaves every Callees[site] and every Callers[f] as the first run left
\* them: no step of the second run changes either map.
C19_SecondRunChangesNothing ==
  [][(reruns >= 1 /\ pc \in {"init", "pass", "final"})
       => (Callees' = Callees /\ Callers' = Callers)]_vars

\* C19, the case reached: the second run has returned, over two modules,
\* with an indirect site resolved to several functions and recorded twice
\* in IndirectCallInsts.
C19_SecondRunReturned ==
  /\ reruns = 1 /\ pc = "callers" /\ Len(Modules) = 2
  /\ \E S \in IndirectSites :
       /\ Cardinality(Get(Callees, S)) >= 2
       /\ Len(SelectSeq(IndirectCallInsts, LAMBDA c : c = S)) = 2
  /\ DOMAIN Callers # {}

\* Every key of m is a key of n, with a set that includes the one m holds.
Grows(m, n) == \A k \in DOMAIN m : k \in DOMAIN n /\ m[k] \subseteq n[k]

\* C20: from one step of the call-graph construction to the next, no set
\* Callees[site], Callers[f] or FuncPtrs[id] loses an element and no key of
\* these maps is removed.
C20_SetsOnlyGrow ==
  [][Grows(Callees, Callees') /\ Grows(Callers, Callers') /\ Grows(FuncPtrs, FuncPtrs')]_vars

\* C20, the case reached: the pass has returned over two modules with a
\* FuncPtrs entry of two functions, an indirect site with several callees
\* and a function with several callers.
C20_MapsFilled ==
  /\ pc = "callers" /\ Len(Modules) = 2
  /\ \E id \in DOMAIN FuncPtrs : Cardinality(FuncPtrs[id]) >= 2
  /\ \E S \in DOMAIN Callees : Cardinality(Callees[S]) >= 2
  /\ \E F \in DOMAIN Callers : Cardinality(Callers[F]) >= 2

\* Some Callees set is larger, or new and non-empty, after the step.
CalleesGrew ==
  \E S \in DOMAIN Callees' : Get(Callees, S) # Callees'[S]

\* C21: the builder iterates to a fixpoint: a call of runOnFunction in which
\* some Callees[site] grew makes doModulePass repeat its sweep over the
\* module (Changed is raised, or the sweep that just ended starts again), so
\* the iteration stops only after a sweep in which no Callees set grew.
C21_GrowthRepeatsSweep ==
  [][(pc = "pass" /\ CalleesGrew) =>
       /\ pc' = "pass"
       /\ IF fidx = Len(ModuleFuncs[Modules[idx]])
          THEN idx' = idx /\ fidx' = 1
          ELSE Changed']_vars

\* C21, the case reached: the pass has moved on to finalization with
\* resolved call sites in every loaded module, none of its sweeps having
\* been repeated.
C21_StoppedAfterGrowingSweep ==
  /\ pc = "final" /\ reruns = 0 /\ ~Changed /\ ~ret /\ changed = 0
  /\ \A i \in 1..Len(Modules) :
       \E S \in DOMAIN Callees :
         FuncTable[SiteTable[S].fn].mod = Modules[i] /\ Callees[S] # {}

\* The directly called functions of the non-intrinsic call sites of C's
\* enclosing function whose block reaches C's block.
SiblingCallees(C) ==
  {getCalledFunction(c) :
     c \in {s \in SiteIds : /\ ~IsIntrinsicInst(s)
                            /\ SiteTable[s].fn = SiteTable[C].fn
                            /\ intraCanReach(SiteTable[s].bb, SiteTable[C].bb)}} \ {None}

\* C22: once sliceFunction(T) has returned, for every function F of
\* visitedF, every call site C of Callers[F] and every non-intrinsic call
\* site of C's function whose block reaches C's block, the function that
\* site calls directly is in verboseF, also when F was put in verboseF as a
\* sibling callee before it was sliced.
C22_SiblingsOfEverySlicedFunction ==
  pc = "forward" =>
    \A F \in Sl.visitedF : \A C \in Get(Callers, F) : SiblingCallees(C) \subseteq Sl.verboseF

\* C22, the case reached: a sliced function with a caller whose sibling
\* callee is missing from verboseF.
C22_SiblingMissing ==
  /\ pc = "forward"
  /\ \E F \in Sl.visitedF \cap Sl.verboseF : \E C \in Get(Callers, F) :
       ~(SiblingCallees(C) \subseteq Sl.verboseF)

\* The functions reachable from those of S through Callees edges.
RECURSIVE ForwardReach(_)
ForwardReach(S) ==
  LET next == S \cup UNION {Callees[c] : c \in {s \in DOMAIN Callees : SiteTable[s].fn \in S}}
  IN  IF next = S THEN S ELSE ForwardReach(next)

\* main is past the forward slices of the target cur.
AfterForward == mode # "line" /\ cur # None /\ pc \in {"multi", "dump"}

\* C23: once forwardSlicingFunction(F) has returned, whatever fVisitedF and
\* verboseBB held before, verboseBB holds every block of F and of every
\* function reachable from F through Callees edges, and fVisitedF holds
\* every function whose blocks were visited, F included.
C23_ForwardSliceClosed ==
  AfterForward =>
    /\ \A G \in ForwardReach({cur}) : BlocksOf(G) \subseteq Sl.verboseBB
    /\ \A b \in Sl.verboseBB : BlockTable[b].fn \in Sl.fVisitedF
    /\ cur \in Sl.fVisitedF

\* C23, the case reached: the forward slice of a target with callees has
\* returned, the target's blocks are in verboseBB and the target is not in
\* fVisitedF.
C23_TargetNotInVisited ==
  /\ AfterForward
  /\ ForwardReach({cur}) # {cur}
  /\ BlocksOf(cur) # {} /\ BlocksOf(cur) \subseteq Sl.verboseBB
  /\ cur \notin Sl.fVisitedF

\* The pointee of a pointer type is the 8-bit integer.
PointsToI8(T) ==
  TypeTable[T].kind = "ptr" /\ TypeTable[TypeTable[T].elem].kind = "int"
                            /\ TypeTable[TypeTable[T].elem].width = 8

\* C24: an actual argument of type pointer to 8-bit integer is compatible
\* with a formal of any pointer type, so that a formal pointing to a named
\* struct is matched by a void* / char* argument; two pointer types are
\* otherwise compatible exactly when their pointees are.
C24_VoidPointerActualMatches ==
  (pc = "compared" /\ TypeTable[FormalTy].kind = "ptr" /\ TypeTable[ActualTy].kind = "ptr") =>
     (compatible <=> (\/ PointsToI8(ActualTy)
                      \/ isCompatibleType(TypeTable[FormalTy].elem, TypeTable[ActualTy].elem)))

\* C24, the case reached: a formal pointing to a named struct has been
\* compared with an i8* actual, and found not compatible.
C24_StructFormalRejected ==
  pc = "compared" /\ FormalTy = "Ap" /\ ActualTy = "i8p" /\ ~compatible

\* C25: two array types are compatible if and only if their element types
\* are compatible; an array of a named struct A and an array of another
\* named struct B are not compatible.
C25_ArraysByElement ==
  (pc = "compared" /\ TypeTable[FormalTy].kind = "arr" /\ TypeTable[ActualTy].kind = "arr") =>
     (compatible <=> isCompatibleType(TypeTable[FormalTy].elem, TypeTable[ActualTy].elem))

\* C25, the case reached: an array of struct A has been compared with an
\* array of struct B, and found compatible.
C25_DifferentStructArraysCompatible ==
  pc = "compared" /\ FormalTy = "arrA" /\ ActualTy = "arrB" /\ compatible

\* The function the statement of C26 names for a query: the first loaded
\* function with a body, in load order and then module order, whose name is
\* the queried one, or contains it and begins with "_Z"; None when there is
\* none.
FirstNamed(funcName) ==
  LET hits == SelectSeq(LoadedFuncs,
                LAMBDA F : /\ FuncTable[F].blocks # <<>>
                           /\ \/ FuncTable[F].name = funcName
                              \/ /\ Contains(FuncTable[F].name, funcName)
                                 /\ StartsWith(FuncTable[F].name, "_Z"))
  IN  IF hits = <<>> THEN None ELSE Head(hits)

\* C26: findTargetByFunctionName returns the first function (with a body),
\* in module load order and then in-module order, whose name equals the
\* queried name, or contains it and begins with "_Z", and null when there
\* is none; a name with "_Z" elsewhere than at its start is not matched by
\* the fallback.
C26_FallbackNeedsManglingPrefix ==
  (mode # "line" /\ lines # <<>>) => cur = FirstNamed(lines[Len(lines)])

\* C26, the case reached: the query Zero has returned the C function
\* cfg_Zero, which has "_Z" in the middle of its name.
C26_InfixMatched ==
  /\ mode # "line" /\ lines # <<>> /\ lines[Len(lines)] = "Zero"
  /\ cur # None /\ FuncTable[cur].name = "cfg_Zero"

\* The line of callgraph_result for the edge from call site CB to F: CB's
\* location, F's subprogram location, and 0 for an indirect call (not inline
\* asm, no directly called function, a non-empty callee set), else 1.
EdgeLine(CB, F) ==
  getLocation(CB) \o ":" \o LocationString(FuncTable[F].mod, FuncTable[F].spLine) \o ":"
    \o (IF ~SiteTable[CB].asm /\ getCalledFunction(CB) = None /\ Get(Callees, CB) # {}
        THEN "0" ELSE "1")

\* C27: every line dumpCallers writes to callgraph_result describes an edge
\* of the call graph: it is the line of a call site CB of Callers[F], with
\* CB's debug location, the subprogram location of that same F, which has a
\* subprogram, and the direct/indirect flag of CB.
C27_LinesAreEdges ==
  callgraph_result # <<>> =>
    \A i \in 1..Len(callgraph_result) :
      \E F \in DOMAIN Callers : \E CB \in Callers[F] :
        FuncTable[F].sp /\ callgraph_result[i] = EdgeLine(CB, F)

\* C27, the case reached: callgraph_result holds, for the call of the
\* declared function sys_open at line 52, a line whose callee location is
\* that of another function.
C27_StaleCalleeLocation ==
  /\ callgraph_result # <<>>
  /\ "a:sysopen" \in DOMAIN Callers /\ ~FuncTable["a:sysopen"].sp
  /\ \E i \in 1..Len(callgraph_result) :
       /\ StartsWith(callgraph_result[i], "/src/a.c:52:")
       /\ \A F \in DOMAIN Callers : \A CB \in Callers[F] :
            ~(FuncTable[F].sp /\ callgraph_result[i] = EdgeLine(CB, F))

\* The call-by-call slicer and the slicing operators agree: when main's
\* backward call has returned, and again when the forward calls have, the
\* slicer's sets are what the operators give for the sets the query started
\* with.  (In single-target mode a query starts with a fresh slicer.)
StepwiseAgrees ==
  /\ (mode = "func" /\ pc = "forward") =>
       Sl = SlOf(sliceFunction(WithCallers(FreshSl, Callers), cur))
  /\ (mode = "line" /\ pc = "dump") =>
       Sl = SlOf(backtracking(WithCallers(FreshSl, Callers), cur))
  /\ (mode = "func" /\ pc = "dump") =>
       Sl = SlOf(forwardQuery(sliceFunction(WithCallers(FreshSl, Callers), cur), cur))

\* C28: the slicer terminates: every call of sliceFunction (with its
\* recursion through backtracking), of backtracking and of
\* forwardSlicingFunction that main makes returns after finitely many
\* steps, on call graphs with direct, mutual and self recursion and CFGs
\* with loops and self-loop edges; and the caller set of a function is
\* processed at most once: when no call is in progress slicedFuncCnt, which
\* starts at 1, has been incremented once for each visited function that
\* has callers.
C28_SlicerTerminates ==
  /\ (pc = "slice") ~> (pc = "forward")
  /\ (pc = "slicing") ~> (callStack = <<>>)
  /\ (pc = "line") ~> (pc \in {"dump", "done"})
  /\ (pc = "forward") ~> (pc \in {"multi", "dump"})
  /\ [](callStack = <<>> =>
          Sl.slicedFuncCnt = 1 + Cardinality({F \in Sl.visitedF : CallersByName(F) # {}}))

\* C28, the case reached: sliceFunction and forwardSlicingFunction have
\* returned for ping, which calls itself and pong, which calls ping back,
\* from a block that is its own successor inside a two-block loop.
C28_RecursiveTargetSliced ==
  /\ mode # "line" /\ pc \in {"multi", "dump"} /\ cur = "b:ping" /\ callStack = <<>>
  /\ {"b:ping", "b:pong"} \subseteq Sl.visitedF
  /\ {"b:ping", "b:pong"} \subseteq Sl.fVisitedF
  /\ {"bp0", "bp1", "bq0"} \subseteq Sl.visitedBB \cap Sl.verboseBB
  /\ \E i, j \in DOMAIN BlockTable["bp1"].succs :
       BlockTable["bp1"].succs[i] = "bp1" /\ BlockTable["bp1"].succs[j] = "bp0"
  /\ Sl.slicedFuncCnt >= 3

\* The blocks from which b is reachable along CFG edges, b included.
RECURSIVE CfgAncestors(_)
CfgAncestors(bs) ==
  LET nxt == bs \cup UNION {{BlockTable[b].preds[i] : i \in DOMAIN BlockTable[b].preds} : b \in bs}
  IN  IF nxt = bs THEN bs ELSE CfgAncestors(nxt)

\* C29: whole-function invariant of the backward slice: whenever no call of
\* the slicer is in progress (a top-level sliceFunction or backtracking has
\* returned), visitedBB is exactly the set of the blocks of the functions in
\* visitedF; and after main's backtracking(B) every block of B's function,
\* and so every CFG ancestor of B, is in visitedBB.
C29_WholeFunctionsVisited ==
  /\ callStack = <<>> => Sl.visitedBB = UNION {BlocksOf(F) : F \in Sl.visitedF}
  /\ (mode = "line" /\ pc = "dump") =>
       /\ BlockTable[cur].fn \in Sl.visitedF
       /\ BlocksOf(BlockTable[cur].fn) \cup CfgAncestors({cur}) \subseteq Sl.visitedBB

\* C29, the case reached: backtracking(aw3) has returned; the scan of aw3's
\* predecessors aw1, aw1, aw2 stopped at the second aw1, and aw2, an
\* ancestor of aw3 the scan did not reach, is in visitedBB.
C29_AncestorBehindRepeatedPredecessor ==
  /\ mode = "line" /\ pc = "dump" /\ callStack = <<>> /\ cur = "aw3"
  /\ BlockTable["aw3"].preds = <<"aw1", "aw1", "aw2">>
  /\ predScan(BlockTable["aw3"].preds, None) = <<"aw1">>
  /\ "aw2" \in CfgAncestors({"aw3"})
  /\ "aw2" \in Sl.visitedBB
  /\ Sl.visitedBB = UNION {BlocksOf(F) : F \in Sl.visitedF}

\* The processes with a stream open on the file and bytes still to write.
Writing ==
  {p \in DOMAIN wpc : wpc[p] = "write" \/ (wpc[p] \in {"unlock", "destroy"} /\ outBuf[p] > 0)}

\* C30: bitcode writer under parallel compilation: a step of a process that
\* changes the bytes of the file is taken while that process holds the
\* fcntl lock; at most one process is writing the file at any time; and once
\* a process has completely written the file, its bytes are not truncated or
\* rewritten.
C30_WritesOnlyUnderLock ==
  /\ [][bcFile'.bytes # bcFile.bytes =>
          \E p \in DOMAIN wpc : wpc'[p] # wpc[p] /\ bcFile.lock = p]_vars
  /\ [](Cardinality(Writing) <= 1)
  /\ [][bcFile.completed # {} => bcFile'.bytes = bcFile.bytes]_vars

\* C30, the case reached: process p has written the whole module, released
\* the lock and returned; process q, which found no file at its exists-check
\* before p created it, has since taken the lock and truncated the file.
C30_CompletedFileTruncated ==
  \E p, q \in DOMAIN wpc :
    /\ p # q
    /\ wpc[p] = "returned" /\ p \in bcFile.completed
    /\ wpc[q] = "write" /\ bcFile.lock = q
    /\ bcFile.exists /\ bcFile.bytes = <<>>

====
